---- MODULE Spec2Model ----
(***************************************************************************)
(* IRRL (Interoperable Reputation & Resolution Layer), API service.        *)
(*                                                                         *)
(* The model follows the TypeScript sources under apps/api/src:            *)
(*   audit/auditLog.ts          AuditLogManager (hash-chained audit log)   *)
(*   crypto/index.ts            sha256, contentId, the SQL schema          *)
(*   routes/trust.routes.ts     POST /trust/evaluations,                   *)
(*                              GET /trust/reputation/:subject,            *)
(*                              POST /verify/:attestationId                *)
(*   routes/attestations.routes.ts  POST /attestations, POST /:id/revoke   *)
(*   resolvers/index.ts         ResolverRegistry and built-in resolvers    *)
(*                                                                         *)
(* Scheduling: one Node.js process, cooperative.  A handler runs           *)
(* synchronously up to its next `await`; every awaited storage call is one *)
(* atomic database step.  An action of a route handler is "the database    *)
(* executes the awaited statement, then the continuation runs up to the    *)
(* next await".  The two awaits inside AuditLogManager.log are split into  *)
(* the database half and the JavaScript half, because the continuation     *)
(* reads and writes the shared fields lastHash / initialized.              *)
(*                                                                         *)
(* Strings: sha256 is modelled as an injective function on strings and     *)
(* JSON.stringify as ToString of the serialised fields in the order the    *)
(* serialiser emits them.                                                  *)
(***************************************************************************)
EXTENDS Integers, Sequences, FiniteSets, TLC

(***************************************************************************)
(* Bounds of the model.                                                    *)
(***************************************************************************)
\* number of request slots that may be in flight at the same time
MaxReq == 2
\* total number of requests / calls started in one behaviour
MaxOps == 2
\* number of times the millisecond clock advances in one behaviour
MaxTicks == 1
\* number of process restarts in one behaviour
MaxBoots == 1

ReqIds == 1..MaxReq

Null == "null"

VARIABLES
    ENABLE_AUDIT_LOG,   \* env.ENABLE_AUDIT_LOG
    now,                \* Date.now() / NOW(), milliseconds
    ticks,              \* how often the clock advanced (bounded)
    audit_log,          \* table audit_log, in BIGSERIAL id order
    lastHash,           \* AuditLogManager.lastHash
    initialized,        \* AuditLogManager.initialized
    req,                \* the request / call running in each slot
    nops,               \* number of requests started so far (bounded)
    overlap,            \* history: some request started while another was in flight
    boots,              \* history: number of process restarts
    realms,             \* table realms
    evaluations,        \* table evaluations
    reputation_cache,   \* table reputation_cache
    attestations,       \* table attestations
    verification_runs,  \* table verification_runs
    proofs,             \* table proofs
    tamper,             \* history: the storage-level modification made to audit_log, if any
    history             \* history: the completed route requests, in order of completion

\* the tables the route handlers work on
storeVars == <<realms, evaluations, reputation_cache, attestations, verification_runs, proofs>>

\* a TEXT of realm ids joined by '/' is the sequence of the ids (no id holds a
\* '/': the seeded ids are words, a created id is "realm_" and a digest); NULL
\* is <<>> and a value v is <<v>>.  A realm without parent, as the trigger
\* compute_realm_path stores it:
RootRealm(id) == [id |-> id, parent_id |-> <<>>, path |-> <<id>>, depth |-> 0]

RealmIds == {r.id : r \in realms}

vars == <<ENABLE_AUDIT_LOG, now, ticks, audit_log, lastHash, initialized, req, nops, overlap,
          boots, tamper, storeVars, history>>

(***************************************************************************)
(* crypto/index.ts                                                         *)
(***************************************************************************)
\* sha256(data): a collision-free digest of the string
sha256(data) == "h(" \o data \o ")"

\* keys of a JSON object (sequence of <<key, value>> pairs), in order
RECURSIVE KeepKeys(_, _)
KeepKeys(obj, allow) ==
    IF obj = <<>> THEN <<>>
    ELSE IF obj[1][1] \in allow
         THEN <<obj[1]>> \o KeepKeys(Tail(obj), allow)
         ELSE KeepKeys(Tail(obj), allow)

(***************************************************************************)
(* PostgreSQL JSONB: an object is stored with its keys ordered by length,  *)
(* then bytewise; the driver parses the stored text in that order.         *)
(***************************************************************************)
\* the keys the callers of auditLog.log put into payloads, in bytewise order
ByteOrder == <<"attestation", "claim", "domain", "duration", "evaluation", "evidence",
               "expectedHash", "realmId", "references", "resolverId", "score", "status",
               "subject", "ts", "url", "username", "verification", "verificationId">>

\* the keys whose value is itself an object
ObjectKeys == {"attestation", "evaluation", "evidence", "verification"}

BytePos(k) == CHOOSE n \in 1..Len(ByteOrder) : ByteOrder[n] = k

JsonbKeyLess(a, b) ==
    IF Len(a) # Len(b) THEN Len(a) < Len(b) ELSE BytePos(a) < BytePos(b)

RECURSIVE JsonbInsert(_, _)
JsonbInsert(pair, sorted) ==
    IF sorted = <<>> THEN <<pair>>
    ELSE IF JsonbKeyLess(pair[1], sorted[1][1])
         THEN <<pair>> \o sorted
         ELSE <<sorted[1]>> \o JsonbInsert(pair, Tail(sorted))

\* the value read back from a JSONB column after storing JSON.stringify(obj):
\* the keys of the object and of every nested object are reordered
RECURSIVE Jsonb(_)
Jsonb(obj) ==
    IF obj = <<>> THEN <<>>
    ELSE JsonbInsert(<<obj[1][1], IF obj[1][1] \in ObjectKeys THEN Jsonb(obj[1][2]) ELSE obj[1][2]>>,
                     Jsonb(Tail(obj)))

(***************************************************************************)
(* audit/auditLog.ts                                                       *)
(***************************************************************************)
Genesis == "genesis"
Disabled == "disabled"

\* entity ids are strings; Array.prototype.sort() orders them by code unit.
\* Entity names are upper-case and sort before the lower-case "cid_..." ids.
EntityNames == <<"A", "B", "S">>

EntityRank(e) ==
    IF \E n \in 1..Len(EntityNames) : EntityNames[n] = e
    THEN CHOOSE n \in 1..Len(EntityNames) : EntityNames[n] = e
    ELSE Len(EntityNames) + 1

RECURSIVE SortInsert(_, _)
SortInsert(e, sorted) ==
    IF sorted = <<>> THEN <<e>>
    ELSE IF EntityRank(e) < EntityRank(sorted[1])
         THEN <<e>> \o sorted
         ELSE <<sorted[1]>> \o SortInsert(e, Tail(sorted))

\* entityIds.sort()
RECURSIVE SortIds(_)
SortIds(ids) ==
    IF ids = <<>> THEN <<>> ELSE SortInsert(ids[1], SortIds(Tail(ids)))

\* the object literal `content` of log() and of verifyChain()
Content(type, actor, entityIds, payload, timestamp, previousHash) ==
    [type |-> type, actor |-> actor, entityIds |-> SortIds(entityIds),
     payload |-> payload, timestamp |-> timestamp, previousHash |-> previousHash]

\* JSON.stringify(content): the fields in the order of the object literal
StringifyContent(c) ==
    ToString(<<c.type, c.actor, c.entityIds, c.payload, c.timestamp, c.previousHash>>)

\* sha256(JSON.stringify(content))
EventHash(c) == sha256(StringifyContent(c))

\* contentId(content) = "cid_" + sha256(JSON.stringify(content, Object.keys(content).sort())):
\* the replacer array orders the top-level keys and is also the allow-list
\* for the keys of every nested object, so a payload key is serialised only
\* when it is also the name of a top-level field of content.
ContentKeys == {"actor", "entityIds", "payload", "previousHash", "timestamp", "type"}

EventContentId(c) ==
    "cid_" \o sha256(ToString(<<c.actor, c.entityIds, KeepKeys(c.payload, ContentKeys),
                                c.previousHash, c.timestamp, c.type>>))

\* the row INSERT INTO audit_log stores: payload goes through the JSONB column
AuditRow(c, n) ==
    [id |-> n, content_id |-> EventContentId(c), event_type |-> c.type,
     actor_id |-> c.actor, entity_ids |-> c.entityIds, payload |-> Jsonb(c.payload),
     previous_hash |-> c.previousHash, hash |-> EventHash(c), timestamp |-> c.timestamp]

\* mutant of TailHash: initialize() does not adopt the stored chain tail
TailHashIgnored(log) == Null

\* SELECT hash FROM audit_log ORDER BY id DESC LIMIT 1
TailHash(log) == IF Len(log) = 0 THEN Null ELSE log[Len(log)].hash

\* the hash verifyChain() recomputes from a stored row
RecomputedHash(e) ==
    EventHash(Content(e.event_type, e.actor_id, e.entity_ids, e.payload,
                      e.timestamp, e.previous_hash))

\* mutant of VerifyFrom: the loop checks the links and never recomputes a hash
RECURSIVE VerifyFromLinksOnly(_, _, _)
VerifyFromLinksOnly(events, k, prev) ==
    IF k > Len(events) THEN [valid |-> TRUE, checkedEvents |-> Len(events)]
    ELSE IF events[k].previous_hash # prev /\ events[k].id # events[1].id
         THEN [valid |-> FALSE, checkedEvents |-> k - 1]
    ELSE VerifyFromLinksOnly(events, k + 1, events[k].hash)

\* the loop of verifyChain() from the k-th row on, `prev` as the loop holds it
RECURSIVE VerifyFrom(_, _, _)
VerifyFrom(events, k, prev) ==
    IF k > Len(events) THEN [valid |-> TRUE, checkedEvents |-> Len(events)]
    ELSE IF events[k].previous_hash # prev /\ events[k].id # events[1].id
         THEN [valid |-> FALSE, checkedEvents |-> k - 1]
    ELSE IF RecomputedHash(events[k]) # events[k].hash
         THEN [valid |-> FALSE, checkedEvents |-> k - 1]
    ELSE VerifyFrom(events, k + 1, events[k].hash)

\* AuditLogManager.verifyChain()
VerifyChain(events) ==
    IF Len(events) = 0 THEN [valid |-> TRUE, checkedEvents |-> 0]
    ELSE VerifyFrom(events, 1, events[1].previous_hash)

(***************************************************************************)
(* Requests in flight.  A slot holds the handler or call that runs in it:  *)
(* kind, the await it is suspended at (pc), its input, the locals of the   *)
(* auditLog.log call it is inside (log), its own locals and its response.  *)
(***************************************************************************)
IdleReq == [kind |-> "none", pc |-> "idle", n |-> 0, with |-> {}, inp |-> <<>>, log |-> <<>>,
            loc |-> <<>>, resp |-> <<>>]

Free(i) == req[i].pc \in {"idle", "done"}

InFlight(i) == ~Free(i)

Quiescent == \A i \in ReqIds : Free(i)

\* the numbers of the requests that are suspended at an await
InFlightNs == {req[j].n : j \in {k \in ReqIds : InFlight(k)}}

\* a route handler sends its response: res.status(code).json(...)
Respond(r, code, error, data) ==
    [r EXCEPT !.pc = "done", !.resp = [code |-> code, error |-> error, data |-> data]]

\* history: a handler that sent its response is recorded
Finish(i) ==
    history' = IF req'[i].pc = "done" /\ req'[i].kind # "log"
               THEN Append(history, [kind |-> req'[i].kind, n |-> req'[i].n, with |-> req'[i].with,
                                     inp |-> req'[i].inp, loc |-> req'[i].loc,
                                     resp |-> req'[i].resp])
               ELSE history

\* a JSON object is the sequence of its <<key, value>> pairs
Has(obj, k) == \E n \in 1..Len(obj) : obj[n][1] = k

Get(obj, k) == obj[CHOOSE n \in 1..Len(obj) : obj[n][1] = k][2]

\* what the caller of `await auditLog.log(...)` does once the call returned
LogReturn(r, event) ==
    CASE r.kind = "log" ->
           [r EXCEPT !.pc = "done", !.resp = [code |-> "returned", event |-> event]]
      \* trust.routes.ts line 39: the handler goes on to the cache DELETE
      [] r.kind = "eval" -> [r EXCEPT !.pc = "eval_cache_delete"]
      \* attestations.routes.ts line 36: the handler answers 201 with the row read back
      [] r.kind = "att" -> Respond(r, 201, "", r.loc.att)
      \* trust.routes.ts line 158: the verify handler goes on to read the attestation
      [] r.kind = "ver" -> [r EXCEPT !.pc = "ver_select"]
      \* proofs.routes.ts line 148: the handler answers 201
      [] r.kind = "proof" ->
           Respond(r, 201, "", [proofId |-> r.loc.proofId, proof |-> r.loc.signedProof,
                                evidenceCount |-> Len(r.loc.evidenceLeaves)])
      \* realms.routes.ts line 33: the handler answers 201 with the row read back
      [] r.kind = "realm" -> Respond(r, 201, "", r.loc.realm)
      [] OTHER -> r

\* what the caller does when the call raised
LogThrow(r) ==
    CASE r.kind = "log" ->
           [r EXCEPT !.pc = "done", !.resp = [code |-> "raised", event |-> <<>>]]
      \* trust.routes.ts lines 41 and 161, attestations.routes.ts line 37,
      \* proofs.routes.ts line 156: the catch block
      [] r.kind \in {"eval", "att", "ver", "proof", "realm"} ->
           Respond(r, 500, "INTERNAL_ERROR", <<>>)
      [] OTHER -> r

\* log(), lines 22-26: build content from this.lastHash and issue the INSERT
LogBody(r, a, lh, last) ==
    LET content == Content(a.type, a.actor, a.entityIds, a.payload, now, lh)
    IN  [r EXCEPT !.pc = "log_insert_db",
                  !.log = [content |-> content, eventId |-> EventContentId(content),
                           eventHash |-> EventHash(content), last |-> last,
                           err |-> FALSE, args |-> a]]

\* log(), line 19: the event returned when logging is disabled; its id is
\* contentId({type, ts}), keys sorted
DisabledEvent(a) ==
    [id |-> "cid_" \o sha256(ToString(<<now, a.type>>)), type |-> a.type, actor |-> a.actor,
     entityIds |-> a.entityIds, payload |-> a.payload, previousHash |-> Disabled,
     hash |-> Disabled, timestamp |-> now]

\* mutant of LogBegin: the flag is not consulted
LogBeginWhateverTheFlag(r, a) ==
    IF initialized
    THEN LogBody(r, a, lastHash, Null)
    ELSE [r EXCEPT !.pc = "log_init_db",
                   !.log = [content |-> <<>>, eventId |-> Null, eventHash |-> Null,
                            last |-> Null, err |-> FALSE, args |-> a]]

\* log(), lines 18-21: the disabled short cut, else initialize() and its await
LogBegin(r, a) ==
    IF ~ENABLE_AUDIT_LOG
    THEN LogReturn(r, DisabledEvent(a))
    ELSE IF initialized
         THEN LogBody(r, a, lastHash, Null)
         ELSE [r EXCEPT !.pc = "log_init_db",
                        !.log = [content |-> <<>>, eventId |-> Null, eventHash |-> Null,
                                 last |-> Null, err |-> FALSE, args |-> a]]

\* the arguments auditLog.log is called with: the shapes its callers build
LogArgs ==
    { [type |-> "evaluation.created", actor |-> "api", entityIds |-> <<"cid_e", "A", "S">>,
       payload |-> <<<<"evaluation", <<<<"score", 80>>, <<"domain", "d1">>, <<"realmId", "R">>>>>>>>],
      [type |-> "attestation.created", actor |-> "api", entityIds |-> <<"cid_a">>,
       payload |-> <<<<"attestation",
                       <<<<"realmId", "R">>, <<"subject", "S">>, <<"claim", "c">>,
                         <<"resolverId", "http-snapshot">>, <<"evidence", <<<<"url", "u">>>>>>,
                         <<"references", <<>>>>, <<"ts", 0>>>>>>>>] }

\* a caller invokes auditLog.log(type, actor, entityIds, payload)
LogCall(i, a) ==
    /\ Free(i)
    /\ \A j \in ReqIds : j < i => InFlight(j)
    /\ nops < MaxOps
    /\ req' = [req EXCEPT ![i] = LogBegin([IdleReq EXCEPT !.kind = "log", !.inp = a], a)]
    /\ nops' = nops + 1
    /\ overlap' = (overlap \/ \E j \in ReqIds : j # i /\ InFlight(j))
    /\ UNCHANGED <<ENABLE_AUDIT_LOG, now, ticks, audit_log, lastHash, initialized, boots, tamper, storeVars, history>>

\* initialize(), line 12: the database answers the chain-tail query
LogInitQuery(i) ==
    /\ req[i].pc = "log_init_db"
    /\ req' = [req EXCEPT ![i].pc = "log_init_js", ![i].log.last = TailHash(audit_log)]
    /\ UNCHANGED <<ENABLE_AUDIT_LOG, now, ticks, audit_log, lastHash, initialized, nops,
                   overlap, boots, tamper, storeVars, history>>

\* initialize(), lines 13-14, then log() continues with lines 22-26
LogInitResume(i) ==
    /\ req[i].pc = "log_init_js"
    /\ lastHash' = (IF req[i].log.last # Null THEN req[i].log.last ELSE lastHash)
    /\ initialized' = TRUE
    /\ req' = [req EXCEPT ![i] = LogBody(req[i], req[i].log.args, lastHash', req[i].log.last)]
    /\ UNCHANGED <<ENABLE_AUDIT_LOG, now, ticks, audit_log, nops, overlap, boots, tamper, storeVars, history>>

\* log(), lines 26-29: the database executes the INSERT; content_id is UNIQUE
LogInsert(i) ==
    /\ req[i].pc = "log_insert_db"
    /\ IF \E k \in 1..Len(audit_log) : audit_log[k].content_id = req[i].log.eventId
       THEN /\ audit_log' = audit_log
            /\ req' = [req EXCEPT ![i].pc = "log_insert_js", ![i].log.err = TRUE]
       ELSE /\ audit_log' = Append(audit_log, AuditRow(req[i].log.content, Len(audit_log) + 1))
            /\ req' = [req EXCEPT ![i].pc = "log_insert_js"]
    /\ UNCHANGED <<ENABLE_AUDIT_LOG, now, ticks, lastHash, initialized, nops, overlap, boots, tamper, storeVars, history>>

\* log(), lines 26-29: the awaited query rejects for a reason of the storage (the
\* connection is lost, the statement times out); nothing is stored
LogInsertFail(i) ==
    /\ req[i].pc = "log_insert_db"
    /\ req' = [req EXCEPT ![i].pc = "log_insert_js", ![i].log.err = TRUE]
    /\ UNCHANGED <<ENABLE_AUDIT_LOG, now, ticks, audit_log, lastHash, initialized, nops, overlap,
                   boots, tamper, storeVars, history>>

\* mutant of LogInsertResume: lastHash is advanced whether the INSERT succeeded or not
LogInsertResumeAdvancing(i) ==
    /\ req[i].pc = "log_insert_js"
    /\ lastHash' = req[i].log.eventHash
    /\ req' = [req EXCEPT ![i] =
                 IF req[i].log.err THEN LogThrow(req[i])
                 ELSE LogReturn(req[i], [previousHash |-> req[i].log.content.previousHash,
                                         hash |-> req[i].log.eventHash])]
    /\ Finish(i)
    /\ UNCHANGED <<ENABLE_AUDIT_LOG, now, ticks, audit_log, initialized, nops, overlap, boots, tamper, storeVars>>

\* log(), lines 30-31: the continuation after the INSERT (or its rejection)
LogInsertResume(i) ==
    /\ req[i].pc = "log_insert_js"
    /\ IF req[i].log.err
       THEN /\ lastHash' = lastHash
            /\ req' = [req EXCEPT ![i] = LogThrow(req[i])]
       ELSE /\ lastHash' = req[i].log.eventHash
            /\ req' = [req EXCEPT ![i] =
                         LogReturn(req[i], [previousHash |-> req[i].log.content.previousHash,
                                            hash |-> req[i].log.eventHash])]
    /\ Finish(i)
    /\ UNCHANGED <<ENABLE_AUDIT_LOG, now, ticks, audit_log, initialized, nops, overlap, boots, tamper, storeVars>>

\* the process is restarted: a new AuditLogManager.  A crash while a call is in
\* flight leaves storage as if the call had completed (its INSERT was executed)
\* or had not been made (it was not), so restarts are taken between calls.
Restart ==
    /\ boots < MaxBoots
    /\ Quiescent
    /\ boots' = boots + 1
    /\ lastHash' = Genesis
    /\ initialized' = FALSE
    /\ req' = [i \in ReqIds |-> IdleReq]
    /\ UNCHANGED <<ENABLE_AUDIT_LOG, now, ticks, audit_log, nops, overlap, tamper, storeVars, history>>

\* the millisecond clock advances
Tick ==
    /\ ticks < MaxTicks
    /\ now' = now + 1
    /\ ticks' = ticks + 1
    /\ UNCHANGED <<ENABLE_AUDIT_LOG, audit_log, lastHash, initialized, req, nops, overlap, boots, tamper, storeVars, history>>

(***************************************************************************)
(* routes/trust.routes.ts: POST /trust/evaluations                         *)
(***************************************************************************)
\* requests started in one behaviour of the trust routes
MaxEvalOps == 3

\* weights are counted in thousandths; `weight = 1.0` is the default of line 13
DefaultWeight == 1000

\* the column weight NUMERIC(3,2) keeps two decimals (rounds half away from zero)
Numeric32(w) == ((w + 5) \div 10) * 10

\* the request bodies: two submissions for the same (from, to, realmId, domain)
\* with different scores and weights, one for another `from`, one naming a realm
\* that does not exist, one without `domain`, one with a score out of range
EvalBodies ==
    { <<<<"from", "A">>, <<"to", "S">>, <<"realmId", "R">>, <<"domain", "d1">>, <<"score", 80>>>>,
      <<<<"from", "A">>, <<"to", "S">>, <<"realmId", "R">>, <<"domain", "d1">>, <<"score", 40>>,
        <<"weight", 555>>>>,
      <<<<"from", "B">>, <<"to", "S">>, <<"realmId", "R">>, <<"domain", "d1">>, <<"score", 60>>,
        <<"weight", 500>>>>,
      <<<<"from", "A">>, <<"to", "S">>, <<"realmId", "X">>, <<"domain", "d1">>, <<"score", 80>>>>,
      <<<<"from", "A">>, <<"to", "S">>, <<"realmId", "R">>, <<"score", 80>>>>,
      <<<<"from", "A">>, <<"to", "S">>, <<"realmId", "R">>, <<"domain", "d1">>, <<"score", 101>>>> }

\* lines 14-16: the checks made before the first await
EvalValid(body) ==
    /\ Has(body, "from") /\ Has(body, "to") /\ Has(body, "realmId") /\ Has(body, "domain")
    /\ Has(body, "score")
    /\ ~(Get(body, "score") < 0 \/ Get(body, "score") > 100)

\* line 13: the destructured body
EvalFields(body) ==
    [from |-> Get(body, "from"), to |-> Get(body, "to"), realmId |-> Get(body, "realmId"),
     domain |-> Get(body, "domain"), score |-> Get(body, "score"),
     weight |-> IF Has(body, "weight") THEN Get(body, "weight") ELSE DefaultWeight]

\* line 22: contentId({from, to, realmId, domain, score, ts}), keys sorted
EvalContentId(f, ts) ==
    "cid_" \o sha256(ToString(<<f.domain, f.from, f.realmId, f.score, f.to, ts>>))

\* line 23: signObject(data, privateKey), the signature of the same canonical text
EvalSignature(f, ts) ==
    "sig(" \o ToString(<<f.domain, f.from, f.realmId, f.score, f.to, ts>>) \o ")"

\* the row of the unique key (from_entity_id, to_entity_id, realm_id, domain)
SameEdge(row, f) ==
    /\ row.from_entity_id = f.from /\ row.to_entity_id = f.to
    /\ row.realm_id = f.realmId /\ row.domain = f.domain

\* history, kept with the locals of a submission: no row of its edge at its start
EdgeFree(f) == \A k \in 1..Len(evaluations) : ~SameEdge(evaluations[k], f)

\* lines 33-35: the row the INSERT stores
EvalRow(f) ==
    [id |-> f.evalId, from_entity_id |-> f.from, to_entity_id |-> f.to, realm_id |-> f.realmId,
     domain |-> f.domain, score |-> f.score, weight |-> Numeric32(f.weight),
     signature |-> f.signature, created_at |-> now]

\* mutant of EvalUpdated: the UPDATE leaves score and weight as they were
EvalUpdatedSignatureOnly(row, f) ==
    [row EXCEPT !.signature = f.signature]

\* lines 27-28: the row after the UPDATE ... WHERE id = existing.id
EvalUpdated(row, f) ==
    [row EXCEPT !.score = f.score, !.weight = Numeric32(f.weight), !.signature = f.signature]

\* the arguments of logEvaluationCreated, line 38 and auditLog.ts line 62
EvalLogArgs(f) ==
    [type |-> "evaluation.created", actor |-> "api", entityIds |-> <<f.evalId, f.from, f.to>>,
     payload |-> <<<<"evaluation",
                     <<<<"score", f.score>>, <<"domain", f.domain>>, <<"realmId", f.realmId>>>>>>>>]

\* a client submits POST /trust/evaluations: lines 13-18
EvalSubmit(i, body) ==
    /\ Free(i)
    /\ \A j \in ReqIds : j < i => InFlight(j)
    /\ nops < MaxEvalOps
    /\ LET r == [IdleReq EXCEPT !.kind = "eval", !.n = nops + 1, !.with = InFlightNs,
                                !.inp = body]
       IN  req' = [req EXCEPT ![i] =
                     IF ~EvalValid(body)
                     THEN Respond(r, 400, "VALIDATION_ERROR", <<>>)
                     ELSE [r EXCEPT !.pc = "eval_realm",
                                    !.loc = EvalFields(body) @@ [fresh |-> EdgeFree(EvalFields(body))]]]
    /\ nops' = nops + 1
    /\ overlap' = (overlap \/ \E j \in ReqIds : j # i /\ InFlight(j))
    /\ Finish(i)
    /\ UNCHANGED <<ENABLE_AUDIT_LOG, now, ticks, audit_log, lastHash, initialized, boots, tamper, storeVars>>

\* lines 18-25: the realm query is answered; data, evalId and signature are built
EvalRealm(i) ==
    /\ req[i].pc = "eval_realm"
    /\ req' = [req EXCEPT ![i] =
                 IF req[i].loc.realmId \notin RealmIds
                 THEN Respond(req[i], 400, "INVALID_REALM", <<>>)
                 ELSE [req[i] EXCEPT !.pc = "eval_existing",
                                     !.loc = @ @@ [ts |-> now, evalId |-> EvalContentId(@, now),
                                                   signature |-> EvalSignature(@, now)]]]
    /\ Finish(i)
    /\ UNCHANGED <<ENABLE_AUDIT_LOG, now, ticks, audit_log, lastHash, initialized, nops, overlap,
                   boots, tamper, storeVars>>

\* lines 25-28 / 33: the query for the existing row is answered
EvalExisting(i) ==
    /\ req[i].pc = "eval_existing"
    /\ LET hits == SelectSeq(evaluations, LAMBDA row : SameEdge(row, req[i].loc))
       IN  req' = [req EXCEPT ![i] =
                     IF Len(hits) > 0
                     THEN [req[i] EXCEPT !.pc = "eval_update",
                                         !.loc = @ @@ [existing |-> hits[1].id]]
                     ELSE [req[i] EXCEPT !.pc = "eval_insert"]]
    /\ UNCHANGED <<ENABLE_AUDIT_LOG, now, ticks, audit_log, lastHash, initialized, nops, overlap,
                   boots, tamper, storeVars, history>>

\* lines 27-29: the UPDATE is executed
EvalUpdate(i) ==
    /\ req[i].pc = "eval_update"
    /\ evaluations' = [k \in 1..Len(evaluations) |->
                         IF evaluations[k].id = req[i].loc.existing
                         THEN EvalUpdated(evaluations[k], req[i].loc)
                         ELSE evaluations[k]]
    /\ req' = [req EXCEPT ![i].pc = "eval_update_select"]
    /\ UNCHANGED <<ENABLE_AUDIT_LOG, now, ticks, audit_log, lastHash, initialized, nops, overlap,
                   boots, tamper, realms, reputation_cache, attestations, verification_runs,
                   history, proofs>>

\* lines 29-30: the updated row is read back and returned; the handler ends here
EvalUpdateSelect(i) ==
    /\ req[i].pc = "eval_update_select"
    /\ LET hits == SelectSeq(evaluations, LAMBDA row : row.id = req[i].loc.existing)
       IN  req' = [req EXCEPT ![i] = Respond(req[i], 200, "", hits)]
    /\ Finish(i)
    /\ UNCHANGED <<ENABLE_AUDIT_LOG, now, ticks, audit_log, lastHash, initialized, nops, overlap,
                   boots, tamper, storeVars>>

\* lines 33-37: the INSERT is executed; the primary key and the unique key reject it
EvalInsert(i) ==
    /\ req[i].pc = "eval_insert"
    /\ IF \E k \in 1..Len(evaluations) :
             evaluations[k].id = req[i].loc.evalId \/ SameEdge(evaluations[k], req[i].loc)
       THEN /\ evaluations' = evaluations
            /\ req' = [req EXCEPT ![i] = Respond(req[i], 500, "INTERNAL_ERROR", <<>>)]
       ELSE /\ evaluations' = Append(evaluations, EvalRow(req[i].loc))
            /\ req' = [req EXCEPT ![i].pc = "eval_insert_select"]
    /\ Finish(i)
    /\ UNCHANGED <<ENABLE_AUDIT_LOG, now, ticks, audit_log, lastHash, initialized, nops, overlap,
                   boots, tamper, realms, reputation_cache, attestations, verification_runs, proofs>>

\* lines 37-38: the inserted row is read back, then logEvaluationCreated is called
EvalInsertSelect(i) ==
    /\ req[i].pc = "eval_insert_select"
    /\ LET hits == SelectSeq(evaluations, LAMBDA row : row.id = req[i].loc.evalId)
           r == [req[i] EXCEPT !.loc = @ @@ [evaluation |-> hits]]
       IN  req' = [req EXCEPT ![i] = LogBegin(r, EvalLogArgs(r.loc))]
    /\ UNCHANGED <<ENABLE_AUDIT_LOG, now, ticks, audit_log, lastHash, initialized, nops, overlap,
                   boots, tamper, storeVars, history>>

\* lines 39-40: the cache rows of (to, realmId) are deleted, 201 is returned
EvalCacheDelete(i) ==
    /\ req[i].pc = "eval_cache_delete"
    /\ reputation_cache' = {c \in reputation_cache :
                              ~(c.subject_id = req[i].loc.to /\ c.realm_id = req[i].loc.realmId)}
    /\ req' = [req EXCEPT ![i] = Respond(req[i], 201, "", req[i].loc.evaluation)]
    /\ Finish(i)
    /\ UNCHANGED <<ENABLE_AUDIT_LOG, now, ticks, audit_log, lastHash, initialized, nops, overlap,
                   boots, tamper, realms, evaluations, attestations, verification_runs, proofs>>

(***************************************************************************)
(* routes/trust.routes.ts: GET /trust/reputation/:subject                  *)
(* graph/trustGraph.ts:    computeReputationWithDecay                      *)
(***************************************************************************)
\* 5 * 60 * 1000 milliseconds, line 110
CacheTtl == 300000

\* the queries: a read through the cache, a forced recomputation, one without domain
RepQueries ==
    { [subject |-> "S", realm |-> "R", domain |-> "d1", refresh |-> "false"],
      [subject |-> "S", realm |-> "R", domain |-> "d1", refresh |-> "true"],
      [subject |-> "S", realm |-> "R", domain |-> "", refresh |-> "false"] }

\* the loop of computeReputationWithDecay: sum += e.score * w
RECURSIVE SumScoreWeight(_)
SumScoreWeight(rows) ==
    IF rows = <<>> THEN 0 ELSE rows[1].score * rows[1].weight + SumScoreWeight(Tail(rows))

\* the loop of computeReputationWithDecay: weight += w
RECURSIVE SumWeight(_)
SumWeight(rows) ==
    IF rows = <<>> THEN 0 ELSE rows[1].weight + SumWeight(Tail(rows))

\* Math.round(num / den) for num >= 0, den > 0
RoundDiv(num, den) == (2 * num + den) \div (2 * den)

Clamp(x, lo, hi) == IF x < lo THEN lo ELSE IF x > hi THEN hi ELSE x

\* computeReputationWithDecay, for evaluations and a newest evaluation younger than
\* a second: the factor 0.5^(ageDays / halfLifeDays) is 1 up to 1e-10 and the
\* staleness penalty is 0.  score is in tenths, confidence in hundredths.
ComputeReputation(evals, atts) ==
    LET sum      == SumScoreWeight(evals)
        weight   == SumWeight(evals)
        verified == Len(SelectSeq(atts, LAMBDA a : a.verification_count > 0))
        upTo5    == IF verified < 5 THEN verified ELSE 5
        \* 10 * (raw + bonus) = num / den
        rawNum   == IF weight > 0 THEN 10 * sum ELSE 500
        rawDen   == IF weight > 0 THEN weight ELSE 1
        bonNum   == IF verified > 0 THEN 20 * verified * upTo5 ELSE 0
        bonDen   == IF verified > 0 THEN Len(atts) ELSE 1
        tenths   == RoundDiv(rawNum * bonDen + bonNum * rawDen, rawDen * bonDen)
        n10      == IF Len(evals) < 10 THEN 10 * Len(evals) ELSE 100
    IN  [score |-> Clamp(tenths, 0, 1000), confidence |-> n10]

\* line 109: contentId({subject, realm, domain, ts}), keys sorted
CacheContentId(q, ts) ==
    "cid_" \o sha256(ToString(<<q.domain, q.realm, q.subject, ts>>))

\* the rows of a cache key (subject_id, realm_id, domain)
SameKey(c, q) == c.subject_id = q.subject /\ c.realm_id = q.realm /\ c.domain = q.domain

\* a client asks GET /trust/reputation/:subject: lines 82-87
RepRequest(i, q) ==
    /\ Free(i)
    /\ \A j \in ReqIds : j < i => InFlight(j)
    /\ nops < MaxEvalOps
    /\ LET r == [IdleReq EXCEPT !.kind = "rep", !.n = nops + 1, !.with = InFlightNs, !.inp = q]
       IN  req' = [req EXCEPT ![i] =
                     IF q.realm = "" \/ q.domain = ""
                     THEN Respond(r, 400, "VALIDATION_ERROR", <<>>)
                     ELSE IF q.refresh # "true"
                          THEN [r EXCEPT !.pc = "rep_cache"]
                          ELSE [r EXCEPT !.pc = "rep_evals"]]
    /\ nops' = nops + 1
    /\ overlap' = (overlap \/ \E j \in ReqIds : j # i /\ InFlight(j))
    /\ Finish(i)
    /\ UNCHANGED <<ENABLE_AUDIT_LOG, now, ticks, audit_log, lastHash, initialized, boots, tamper, storeVars>>

\* mutant of RepCache: the cache query without its valid_until condition
RepCacheWhateverTheExpiry(i) ==
    /\ req[i].pc = "rep_cache"
    /\ LET hits == {c \in reputation_cache : SameKey(c, req[i].inp)}
       IN  req' = [req EXCEPT ![i] =
                     IF hits # {}
                     THEN Respond(req[i], 200, "cached", hits)
                     ELSE [req[i] EXCEPT !.pc = "rep_evals"]]
    /\ Finish(i)
    /\ UNCHANGED <<ENABLE_AUDIT_LOG, now, ticks, audit_log, lastHash, initialized, nops, overlap,
                   boots, tamper, storeVars>>

\* lines 87-89: the cache query is answered (valid_until > NOW())
RepCache(i) ==
    /\ req[i].pc = "rep_cache"
    /\ LET hits == {c \in reputation_cache : SameKey(c, req[i].inp) /\ c.valid_until > now}
       IN  req' = [req EXCEPT ![i] =
                     IF hits # {}
                     THEN Respond(req[i], 200, "cached", hits)
                     ELSE [req[i] EXCEPT !.pc = "rep_evals"]]
    /\ Finish(i)
    /\ UNCHANGED <<ENABLE_AUDIT_LOG, now, ticks, audit_log, lastHash, initialized, nops, overlap,
                   boots, tamper, storeVars>>

\* lines 92-96: the evaluations of (subject, realm, domain) are read
RepEvals(i) ==
    /\ req[i].pc = "rep_evals"
    /\ LET rows == SelectSeq(evaluations, LAMBDA e : /\ e.to_entity_id = req[i].inp.subject
                                                      /\ e.realm_id = req[i].inp.realm
                                                      /\ e.domain = req[i].inp.domain)
       IN  req' = [req EXCEPT ![i] =
                     IF Len(rows) = 0
                     THEN Respond(req[i], 200, "No evaluations found", {})
                     ELSE [req[i] EXCEPT !.pc = "rep_atts", !.loc = [evals |-> rows]]]
    /\ Finish(i)
    /\ UNCHANGED <<ENABLE_AUDIT_LOG, now, ticks, audit_log, lastHash, initialized, nops, overlap,
                   boots, tamper, storeVars>>

\* line 97: the attestations of (subject, realm) are read
RepAtts(i) ==
    /\ req[i].pc = "rep_atts"
    /\ LET atts == SelectSeq(attestations, LAMBDA a : /\ a.subject_id = req[i].inp.subject
                                                       /\ a.realm_id = req[i].inp.realm)
       IN  req' = [req EXCEPT ![i].pc = "rep_realm", ![i].loc = @ @@ [atts |-> atts]]
    /\ UNCHANGED <<ENABLE_AUDIT_LOG, now, ticks, audit_log, lastHash, initialized, nops, overlap,
                   boots, tamper, storeVars, history>>

\* lines 99-110: the realm rules are read (the seeded realms carry no rules, so
\* halfLife = 180 and minScore = 0), the reputation is computed, the cache row built
RepRealm(i) ==
    /\ req[i].pc = "rep_realm"
    /\ LET result == ComputeReputation(req[i].loc.evals, req[i].loc.atts)
       IN  req' = [req EXCEPT ![i].pc = "rep_upsert",
                              ![i].loc = @ @@ [result |-> result,
                                               cacheId |-> CacheContentId(req[i].inp, now),
                                               validUntil |-> now + CacheTtl]]
    /\ UNCHANGED <<ENABLE_AUDIT_LOG, now, ticks, audit_log, lastHash, initialized, nops, overlap,
                   boots, tamper, storeVars, history>>

\* lines 111-113: the row INSERT ... ON CONFLICT DO UPDATE leaves behind.  `basis`
\* is history: the evaluation rows the stored score was computed from.
CacheRow(r, old) ==
    [id |-> IF old = {} THEN r.loc.cacheId ELSE (CHOOSE c \in old : TRUE).id,
     subject_id |-> r.inp.subject, realm_id |-> r.inp.realm, domain |-> r.inp.domain,
     score |-> r.loc.result.score, confidence |-> r.loc.result.confidence,
     evaluation_count |-> Len(r.loc.evals), attestation_count |-> Len(r.loc.atts),
     valid_until |-> r.loc.validUntil, basis |-> r.loc.evals]

\* lines 111-115: the upsert is executed and the computed reputation returned
RepUpsert(i) ==
    /\ req[i].pc = "rep_upsert"
    /\ LET old == {c \in reputation_cache : SameKey(c, req[i].inp)}
       IN  reputation_cache' = (reputation_cache \ old) \cup {CacheRow(req[i], old)}
    /\ req' = [req EXCEPT ![i] = Respond(req[i], 200, "computed", {})]
    /\ Finish(i)
    /\ UNCHANGED <<ENABLE_AUDIT_LOG, now, ticks, audit_log, lastHash, initialized, nops, overlap,
                   boots, tamper, realms, evaluations, attestations, verification_runs, proofs>>

(***************************************************************************)
(* resolvers/index.ts: the registry after registerBuiltInResolvers()       *)
(***************************************************************************)
\* register() stores a resolver under `id` and under `id@version`; `required`
\* is the required list of its evidenceSchema
Resolvers ==
    [k \in {"http-snapshot", "http-snapshot@2.0.0", "github-activity",
            "github-activity@2.0.0", "task-completion", "task-completion@1.0.0"} |->
        CASE k \in {"http-snapshot", "http-snapshot@2.0.0"} ->
               [id |-> "http-snapshot", version |-> "2.0.0", required |-> {"url"}]
          [] k \in {"github-activity", "github-activity@2.0.0"} ->
               [id |-> "github-activity", version |-> "2.0.0", required |-> {"username"}]
          [] OTHER ->
               [id |-> "task-completion", version |-> "1.0.0",
                required |-> {"taskIds", "successRate"}]]

\* resolverRegistry.get(id) # null
Registered(id) == id \in DOMAIN Resolvers

\* validateEvidence(evidence).valid: every required key is present (the values
\* of the model's evidence have the type the schema names)
EvidenceValid(id, evidence) == \A k \in Resolvers[id].required : Has(evidence, k)

\* the value of the JavaScript expression row.name: undefined when the row
\* object has no property of that name
Undefined == "undefined"

\* mutant of RowProp: the resolver id is read from its column
RowPropOfColumn(row, name) ==
    IF name \in DOMAIN row THEN row[name]
    ELSE IF name = "resolverId" THEN row.resolver_id ELSE Undefined

RowProp(row, name) == IF name \in DOMAIN row THEN row[name] ELSE Undefined

(***************************************************************************)
(* routes/attestations.routes.ts: POST /attestations                       *)
(***************************************************************************)
\* the attestation routes answer at most this many requests in a run
MaxAttOps == 3

\* the date a body gives as expiresAt, and the instant it names
EpochDate == "1970-01-01T00:00:00.000Z"

InstantOf(date) == IF date = EpochDate THEN 0 ELSE -1

\* the request bodies: two that are valid (one names the resolver by id@version),
\* one with an unknown realm, one with an unknown resolver, one whose evidence
\* lacks the required key, one without `claim`, one that is valid and expires
AttBodies ==
    { <<<<"realmId", "R">>, <<"subject", "S">>, <<"claim", "c">>,
        <<"resolverId", "http-snapshot">>, <<"evidence", <<<<"url", "u">>>>>>>>,
      <<<<"realmId", "R">>, <<"subject", "S">>, <<"claim", "c2">>,
        <<"resolverId", "http-snapshot@2.0.0">>, <<"evidence", <<<<"url", "u">>>>>>>>,
      <<<<"realmId", "X">>, <<"subject", "S">>, <<"claim", "c">>,
        <<"resolverId", "http-snapshot">>, <<"evidence", <<<<"url", "u">>>>>>>>,
      <<<<"realmId", "R">>, <<"subject", "S">>, <<"claim", "c">>,
        <<"resolverId", "nope">>, <<"evidence", <<<<"url", "u">>>>>>>>,
      <<<<"realmId", "R">>, <<"subject", "S">>, <<"claim", "c">>,
        <<"resolverId", "http-snapshot">>, <<"evidence", <<<<"expectedHash", "x">>>>>>>>,
      <<<<"realmId", "R">>, <<"subject", "S">>,
        <<"resolverId", "http-snapshot">>, <<"evidence", <<<<"url", "u">>>>>>>>,
      <<<<"realmId", "R">>, <<"subject", "S">>, <<"claim", "c3">>,
        <<"resolverId", "http-snapshot">>, <<"evidence", <<<<"url", "u">>>>>>,
        <<"expiresAt", EpochDate>>>> }

\* line 14: the check made before the first await
AttValid(body) ==
    /\ Has(body, "realmId") /\ Has(body, "subject") /\ Has(body, "claim")
    /\ Has(body, "resolverId") /\ Has(body, "evidence")

\* line 26: data = {realmId, subject, claim, resolverId, evidence, references, ts}
AttData(body, ts) ==
    [realmId |-> Get(body, "realmId"), subject |-> Get(body, "subject"),
     claim |-> Get(body, "claim"), resolverId |-> Get(body, "resolverId"),
     evidence |-> Get(body, "evidence"),
     references |-> IF Has(body, "references") THEN Get(body, "references") ELSE <<>>,
     ts |-> ts]

\* the keys of data: the replacer array of contentId(data) and signObject(data)
AttDataKeys == {"claim", "evidence", "realmId", "references", "resolverId", "subject", "ts"}

\* JSON.stringify(data, Object.keys(data).sort()): the keys of the nested
\* evidence object pass through the same allow-list
AttCanonical(d) ==
    ToString(<<d.claim, KeepKeys(d.evidence, AttDataKeys), d.realmId, d.references,
               d.resolverId, d.subject, d.ts>>)

\* line 27
AttContentId(d) == "cid_" \o sha256(AttCanonical(d))

\* line 28
AttSignature(d) == "sig(" \o AttCanonical(d) \o ")"

\* mutant of AttRow: the row is stored as already verified
AttRowVerified(d, body) ==
    [id |-> AttContentId(d), realm_id |-> d.realmId, attester_id |-> "api",
     subject_id |-> d.subject, claim |-> d.claim, claim_hash |-> sha256(d.claim),
     resolver_id |-> d.resolverId, evidence |-> Jsonb(d.evidence),
     evidence_hash |-> sha256(ToString(d.evidence)), reference_ids |-> d.references,
     signature |-> AttSignature(d), status |-> "verified",
     expires_at |-> IF Has(body, "expiresAt") THEN Get(body, "expiresAt") ELSE Null,
     verification_count |-> 0, last_verified_at |-> Null,
     created_at |-> now, updated_at |-> now]

\* lines 30-32: the row the INSERT stores; status, verification_count, created_at
\* and updated_at take the defaults of the table
AttRow(d, body) ==
    [id |-> AttContentId(d), realm_id |-> d.realmId, attester_id |-> "api",
     subject_id |-> d.subject, claim |-> d.claim, claim_hash |-> sha256(d.claim),
     resolver_id |-> d.resolverId, evidence |-> Jsonb(d.evidence),
     evidence_hash |-> sha256(ToString(d.evidence)), reference_ids |-> d.references,
     signature |-> AttSignature(d), status |-> "pending",
     expires_at |-> IF Has(body, "expiresAt") THEN Get(body, "expiresAt") ELSE Null,
     verification_count |-> 0, last_verified_at |-> Null,
     created_at |-> now, updated_at |-> now]

\* the arguments of logAttestationCreated, line 35 and auditLog.ts line 56
AttLogArgs(d) ==
    [type |-> "attestation.created", actor |-> "api", entityIds |-> <<AttContentId(d)>>,
     payload |-> <<<<"attestation",
                     <<<<"realmId", d.realmId>>, <<"subject", d.subject>>, <<"claim", d.claim>>,
                       <<"resolverId", d.resolverId>>, <<"evidence", d.evidence>>,
                       <<"references", d.references>>, <<"ts", d.ts>>>>>>>>]

\* a client submits POST /attestations: lines 13-17.  `pre` is history: the
\* attestation store and the audit log as they are when the request arrives.
AttSubmit(i, body) ==
    /\ Free(i)
    /\ \A j \in ReqIds : j < i => InFlight(j)
    /\ nops < MaxAttOps
    /\ LET r == [IdleReq EXCEPT !.kind = "att", !.n = nops + 1, !.with = InFlightNs,
                                !.inp = body]
       IN  req' = [req EXCEPT ![i] =
                     IF ~AttValid(body)
                     THEN Respond(r, 400, "VALIDATION_ERROR", <<>>)
                     ELSE [r EXCEPT !.pc = "att_realm",
                                    !.loc = [pre |-> [attestations |-> attestations,
                                                      audit_log |-> audit_log]]]]
    /\ nops' = nops + 1
    /\ overlap' = (overlap \/ \E j \in ReqIds : j # i /\ InFlight(j))
    /\ Finish(i)
    /\ UNCHANGED <<ENABLE_AUDIT_LOG, now, ticks, audit_log, lastHash, initialized, boots, tamper, storeVars>>

\* lines 17-30: the realm query is answered; resolver lookup, evidence validation,
\* data, attId and signature; the INSERT is issued
AttRealm(i) ==
    /\ req[i].pc = "att_realm"
    /\ LET body == req[i].inp
           data == AttData(body, now)
       IN  req' = [req EXCEPT ![i] =
                     IF data.realmId \notin RealmIds
                     THEN Respond(req[i], 400, "INVALID_REALM", <<>>)
                     ELSE IF ~Registered(data.resolverId)
                     THEN Respond(req[i], 400, "INVALID_RESOLVER", <<>>)
                     ELSE IF ~EvidenceValid(data.resolverId, data.evidence)
                     THEN Respond(req[i], 400, "INVALID_EVIDENCE", <<>>)
                     ELSE [req[i] EXCEPT !.pc = "att_insert",
                                         !.loc = @ @@ [data |-> data, attId |-> AttContentId(data)]]]
    /\ Finish(i)
    /\ UNCHANGED <<ENABLE_AUDIT_LOG, now, ticks, audit_log, lastHash, initialized, nops, overlap,
                   boots, tamper, storeVars>>

\* lines 30-34: the INSERT is executed; the primary key rejects a second row of the id
AttInsert(i) ==
    /\ req[i].pc = "att_insert"
    /\ IF \E k \in 1..Len(attestations) : attestations[k].id = req[i].loc.attId
       THEN /\ attestations' = attestations
            /\ req' = [req EXCEPT ![i] = Respond(req[i], 500, "INTERNAL_ERROR", <<>>)]
       ELSE /\ attestations' = Append(attestations, AttRow(req[i].loc.data, req[i].inp))
            /\ req' = [req EXCEPT ![i].pc = "att_insert_select"]
    /\ Finish(i)
    /\ UNCHANGED <<ENABLE_AUDIT_LOG, now, ticks, audit_log, lastHash, initialized, nops, overlap,
                   boots, tamper, realms, evaluations, reputation_cache, verification_runs, proofs>>

\* lines 34-35: the inserted row is read back, then logAttestationCreated is called
AttInsertSelect(i) ==
    /\ req[i].pc = "att_insert_select"
    /\ LET hits == SelectSeq(attestations, LAMBDA row : row.id = req[i].loc.attId)
           r == [req[i] EXCEPT !.loc = @ @@ [att |-> hits]]
       IN  req' = [req EXCEPT ![i] = LogBegin(r, AttLogArgs(r.loc.data))]
    /\ Finish(i)
    /\ UNCHANGED <<ENABLE_AUDIT_LOG, now, ticks, audit_log, lastHash, initialized, nops, overlap,
                   boots, tamper, storeVars>>

(***************************************************************************)
(* routes/attestations.routes.ts: POST /attestations/:id/revoke            *)
(***************************************************************************)
\* mutant of Revoked: the UPDATE also clears the stored evidence
RevokedClearsEvidence(row) ==
    [row EXCEPT !.status = "revoked", !.updated_at = now, !.evidence = <<>>]

\* line 69: UPDATE attestations SET status = 'revoked', updated_at = NOW()
Revoked(row) == [row EXCEPT !.status = "revoked", !.updated_at = now]

\* a client asks POST /attestations/:id/revoke: lines 64-66.  `pre` is history:
\* the attestation store and the audit log as they are when the request arrives.
RevRequest(i, id) ==
    /\ Free(i)
    /\ \A j \in ReqIds : j < i => InFlight(j)
    /\ nops < MaxAttOps
    /\ req' = [req EXCEPT ![i] =
                 [IdleReq EXCEPT !.kind = "rev", !.pc = "rev_load", !.n = nops + 1,
                                 !.with = InFlightNs, !.inp = [id |-> id],
                                 !.loc = [pre |-> [attestations |-> attestations,
                                                   audit_log |-> audit_log]]]]
    /\ nops' = nops + 1
    /\ overlap' = (overlap \/ \E j \in ReqIds : j # i /\ InFlight(j))
    /\ UNCHANGED <<ENABLE_AUDIT_LOG, now, ticks, audit_log, lastHash, initialized, boots, tamper,
                   storeVars, history>>

\* lines 66-69: the attestation is loaded; NOT_FOUND, ALREADY_REVOKED, or the
\* UPDATE is issued
RevLoad(i) ==
    /\ req[i].pc = "rev_load"
    /\ LET hits == SelectSeq(attestations, LAMBDA row : row.id = req[i].inp.id)
       IN  req' = [req EXCEPT ![i] =
                     IF Len(hits) = 0
                     THEN Respond(req[i], 404, "NOT_FOUND", <<>>)
                     ELSE IF hits[1].status = "revoked"
                     THEN Respond(req[i], 400, "ALREADY_REVOKED", <<>>)
                     ELSE [req[i] EXCEPT !.pc = "rev_update"]]
    /\ Finish(i)
    /\ UNCHANGED <<ENABLE_AUDIT_LOG, now, ticks, audit_log, lastHash, initialized, nops, overlap,
                   boots, tamper, storeVars>>

\* lines 69-70: the UPDATE is executed on every row of the id; the SELECT is issued
RevUpdate(i) ==
    /\ req[i].pc = "rev_update"
    /\ attestations' = [k \in 1..Len(attestations) |->
                          IF attestations[k].id = req[i].inp.id
                          THEN Revoked(attestations[k])
                          ELSE attestations[k]]
    /\ req' = [req EXCEPT ![i].pc = "rev_select"]
    /\ UNCHANGED <<ENABLE_AUDIT_LOG, now, ticks, audit_log, lastHash, initialized, nops, overlap,
                   boots, tamper, realms, evaluations, reputation_cache, verification_runs,
                   history, proofs>>

\* lines 70-71: the row is read back and returned; no auditLog call is made
RevSelect(i) ==
    /\ req[i].pc = "rev_select"
    /\ LET hits == SelectSeq(attestations, LAMBDA row : row.id = req[i].inp.id)
       IN  req' = [req EXCEPT ![i] = Respond(req[i], 200, "", hits)]
    /\ Finish(i)
    /\ UNCHANGED <<ENABLE_AUDIT_LOG, now, ticks, audit_log, lastHash, initialized, nops, overlap,
                   boots, tamper, storeVars>>

(***************************************************************************)
(* routes/trust.routes.ts, verifyRouter: POST /verify/:attestationId       *)
(***************************************************************************)
\* an id no attestation has
NoSuchId == "cid_none"

\* a client asks POST /verify/:attestationId with body {force}: lines 130-133
VerRequest(i, id, force) ==
    /\ Free(i)
    /\ \A j \in ReqIds : j < i => InFlight(j)
    /\ nops < MaxAttOps
    /\ req' = [req EXCEPT ![i] =
                 [IdleReq EXCEPT !.kind = "ver", !.pc = "ver_load", !.n = nops + 1,
                                 !.with = InFlightNs,
                                 !.inp = [attestationId |-> id, force |-> force]]]
    /\ nops' = nops + 1
    /\ overlap' = (overlap \/ \E j \in ReqIds : j # i /\ InFlight(j))
    /\ UNCHANGED <<ENABLE_AUDIT_LOG, now, ticks, audit_log, lastHash, initialized, boots, tamper,
                   storeVars, history>>

\* lines 133-146: the attestation is loaded (SELECT *: the row object carries the
\* column names); the short cut for a verified attestation; the resolver is
\* looked up under att.resolverId; evidence and start are taken, verify is called
VerLoad(i) ==
    /\ req[i].pc = "ver_load"
    /\ LET hits == SelectSeq(attestations, LAMBDA row : row.id = req[i].inp.attestationId)
       IN  req' = [req EXCEPT ![i] =
                     IF Len(hits) = 0
                     THEN Respond(req[i], 404, "NOT_FOUND", <<>>)
                     ELSE IF ~req[i].inp.force /\ hits[1].status = "verified"
                     THEN [req[i] EXCEPT !.pc = "ver_last", !.loc = [att |-> hits[1]]]
                     ELSE IF ~Registered(RowProp(hits[1], "resolverId"))
                     THEN Respond([req[i] EXCEPT !.loc = [att |-> hits[1]]],
                                  400, "RESOLVER_NOT_FOUND", <<>>)
                     ELSE [req[i] EXCEPT !.pc = "ver_resolve",
                                         !.loc = [att |-> hits[1],
                                                  resolver |-> Resolvers[RowProp(hits[1], "resolverId")],
                                                  start |-> now]]]
    /\ Finish(i)
    /\ UNCHANGED <<ENABLE_AUDIT_LOG, now, ticks, audit_log, lastHash, initialized, nops, overlap,
                   boots, tamper, storeVars>>

\* lines 137-138: the last run of the attestation is read and returned
VerLast(i) ==
    /\ req[i].pc = "ver_last"
    /\ LET runs == SelectSeq(verification_runs,
                             LAMBDA v : v.attestation_id = req[i].inp.attestationId)
       IN  req' = [req EXCEPT ![i] =
                     Respond(req[i], 200, "cached",
                             IF Len(runs) = 0 THEN <<>> ELSE <<runs[Len(runs)]>>)]
    /\ Finish(i)
    /\ UNCHANGED <<ENABLE_AUDIT_LOG, now, ticks, audit_log, lastHash, initialized, nops, overlap,
                   boots, tamper, storeVars>>

\* the outcomes of Resolver.verify: createResult(status, output, snapshot)
VerifyStatuses == {"verified", "failed", "error"}

ResolverOutput(status) ==
    IF status = "error" THEN <<>> ELSE <<<<"contentHash", "h(c)">>, <<"status", 200>>>>

\* line 149: contentId({attestationId, ts, hash}), keys sorted
RunContentId(attestationId, ts, hash) ==
    "cid_" \o sha256(ToString(<<attestationId, hash, ts>>))

\* line 154: the status the attestation takes from the result of the run
NewStatus(status) ==
    IF status = "verified" THEN "verified" ELSE IF status = "failed" THEN "failed" ELSE "pending"

\* lines 146-152: the resolver answers; duration and verId; the run INSERT is issued
VerResolve(i, status) ==
    /\ req[i].pc = "ver_resolve"
    /\ LET outputHash == sha256(ToString(ResolverOutput(status)))
       IN  req' = [req EXCEPT ![i].pc = "ver_insert_run",
                              ![i].loc = @ @@ [result |-> [status |-> status, outputHash |-> outputHash],
                                               duration |-> now - req[i].loc.start,
                                               verId |-> RunContentId(req[i].inp.attestationId,
                                                                      now, outputHash)]]
    /\ UNCHANGED <<ENABLE_AUDIT_LOG, now, ticks, audit_log, lastHash, initialized, nops, overlap,
                   boots, tamper, storeVars, history>>

\* lines 150-155: the run INSERT is executed; the primary key rejects a second run of the id
VerInsertRun(i) ==
    /\ req[i].pc = "ver_insert_run"
    /\ IF \E k \in 1..Len(verification_runs) : verification_runs[k].id = req[i].loc.verId
       THEN /\ verification_runs' = verification_runs
            /\ req' = [req EXCEPT ![i] = Respond(req[i], 500, "INTERNAL_ERROR", <<>>)]
       ELSE /\ verification_runs' =
                  Append(verification_runs,
                         [id |-> req[i].loc.verId, attestation_id |-> req[i].inp.attestationId,
                          resolver_id |-> req[i].loc.resolver.id,
                          resolver_version |-> req[i].loc.resolver.version,
                          status |-> req[i].loc.result.status,
                          output_hash |-> req[i].loc.result.outputHash,
                          duration_ms |-> req[i].loc.duration, triggered_by |-> "api",
                          created_at |-> now])
            /\ req' = [req EXCEPT ![i].pc = "ver_update"]
    /\ Finish(i)
    /\ UNCHANGED <<ENABLE_AUDIT_LOG, now, ticks, audit_log, lastHash, initialized, nops, overlap,
                   boots, tamper, realms, evaluations, reputation_cache, attestations, proofs>>

\* the arguments of logAttestationVerified, line 157 and auditLog.ts line 59
VerLogArgs(r) ==
    [type |-> "attestation.verified", actor |-> "api", entityIds |-> <<r.inp.attestationId>>,
     payload |-> <<<<"verification",
                     <<<<"verificationId", r.loc.verId>>, <<"status", r.loc.result.status>>,
                       <<"duration", r.loc.duration>>>>>>>>]

\* lines 155-157: the status UPDATE is executed, then logAttestationVerified is called
VerUpdate(i) ==
    /\ req[i].pc = "ver_update"
    /\ attestations' = [k \in 1..Len(attestations) |->
                          IF attestations[k].id = req[i].inp.attestationId
                          THEN [attestations[k] EXCEPT
                                   !.status = NewStatus(req[i].loc.result.status),
                                   !.verification_count = @ + 1,
                                   !.last_verified_at = now, !.updated_at = now]
                          ELSE attestations[k]]
    /\ req' = [req EXCEPT ![i] = LogBegin(req[i], VerLogArgs(req[i]))]
    /\ Finish(i)
    /\ UNCHANGED <<ENABLE_AUDIT_LOG, now, ticks, audit_log, lastHash, initialized, nops, overlap,
                   boots, tamper, realms, evaluations, reputation_cache, verification_runs, proofs>>

\* lines 158-160: the attestation is read back and returned with the run
VerSelect(i) ==
    /\ req[i].pc = "ver_select"
    /\ LET hits == SelectSeq(attestations, LAMBDA row : row.id = req[i].inp.attestationId)
       IN  req' = [req EXCEPT ![i] = Respond(req[i], 200, "", hits)]
    /\ Finish(i)
    /\ UNCHANGED <<ENABLE_AUDIT_LOG, now, ticks, audit_log, lastHash, initialized, nops, overlap,
                   boots, tamper, storeVars>>

\* The handler from the await of resolver.verify on (lines 146-160) and the short
\* cut of lines 137-138.  They are entered only from VerLoad.
VerAfterLoad(i) ==
    \/ VerLast(i)
    \/ \E status \in VerifyStatuses : VerResolve(i, status)
    \/ VerInsertRun(i)
    \/ VerUpdate(i)
    \/ VerSelect(i)

(***************************************************************************)
(* graph/trustGraph.ts: TrustGraph                                         *)
(*                                                                         *)
(* JavaScript numbers are kept as exact fractions [n, d] in lowest terms.  *)
(***************************************************************************)
RECURSIVE Gcd(_, _)
Gcd(a, b) == IF b = 0 THEN a ELSE Gcd(b, a % b)

\* the number n / d, for n >= 0 and d > 0
Rat(n, d) == IF n = 0 THEN [n |-> 0, d |-> 1] ELSE [n |-> n \div Gcd(n, d), d |-> d \div Gcd(n, d)]

Zero == Rat(0, 1)

One == Rat(1, 1)

\* the products are formed after cancelling, so that they stay small
RMul(a, b) ==
    IF a.n = 0 \/ b.n = 0 THEN Zero
    ELSE LET g == Gcd(a.n, b.d)
             h == Gcd(b.n, a.d)
         IN  Rat((a.n \div g) * (b.n \div h), (a.d \div h) * (b.d \div g))

\* the least common multiple of two denominators
Lcm(c, d) == (c \div Gcd(c, d)) * d

RAdd(a, b) ==
    IF a.n = 0 THEN b
    ELSE IF b.n = 0 THEN a
    ELSE LET l == Lcm(a.d, b.d)
         IN  Rat(a.n * (l \div a.d) + b.n * (l \div b.d), l)

\* a - b, for a >= b
RSub(a, b) ==
    IF b.n = 0 THEN a
    ELSE LET l == Lcm(a.d, b.d)
         IN  Rat(a.n * (l \div a.d) - b.n * (l \div b.d), l)

\* a / b, for b > 0
RDiv(a, b) == Rat(a.n * b.d, a.d * b.n)

RLess(a, b) ==
    IF a.d = b.d THEN a.n < b.n
    ELSE LET l == Lcm(a.d, b.d)
         IN  a.n * (l \div a.d) < b.n * (l \div b.d)

RMin(a, b) == IF RLess(b, a) THEN b ELSE a

\* Math.pow(a, k) for an integer k >= 0: the powers of a fraction in lowest
\* terms are in lowest terms
RPow(a, k) == IF k = 0 THEN One ELSE [n |-> a.n ^ k, d |-> a.d ^ k]

\* addEdge, lines 12-21: score is eval_.score / 100; weight is eval_.weight as the
\* route passes it, the text node-pg returns for the NUMERIC column (in the
\* model the thousandths that text reads as)
Edge(row) ==
    [from |-> row.from_entity_id, to |-> row.to_entity_id, domain |-> row.domain,
     realmId |-> row.realm_id, score |-> Rat(row.score, 100), weight |-> row.weight]

\* loadFromEvaluations, lines 23-25: the edges in the order of the rows
LoadFromEvaluations(rows) == [k \in 1..Len(rows) |-> Edge(rows[k])]

\* adjacency.get(`${node}:${domain}`) || []
Adjacency(edges, node, domain) ==
    SelectSeq(edges, LAMBDA e : e.from = node /\ e.domain = domain)

\* line 31: sum += e.score * e.weight; the product converts the text to its number
RECURSIVE SumScoreTimesWeight(_)
SumScoreTimesWeight(es) ==
    IF es = <<>> THEN Zero
    ELSE RAdd(RMul(es[1].score, Rat(es[1].weight, 1000)), SumScoreTimesWeight(Tail(es)))

\* line 31: weight += e.weight.  The sum of the number 0 and a text is the text
\* "0" followed by that text, and each further text is appended: the accumulator
\* is "0" followed by these texts.
WeightTexts(es) == [k \in 1..Len(es) |-> es[k].weight]

\* the value of a text that is not a numeric literal, and of every comparison with it
NaN == -1

\* the number the accumulator converts to in `weight > 0` and `sum / weight`:
\* "0" followed by one NUMERIC text ("01.00") is that number; followed by two or
\* more ("01.000.50") it has two decimal points and is NaN
ToNumber(texts) == IF Len(texts) = 1 THEN texts[1] ELSE NaN

\* getDirectTrust, lines 27-33: <<>> is null, <<x>> the number x
GetDirectTrust(edges, from, to, domain) ==
    LET es == SelectSeq(Adjacency(edges, from, domain), LAMBDA e : e.to = to)
        sum == SumScoreTimesWeight(es)
        weight == ToNumber(WeightTexts(es))
    IN  IF Len(es) = 0 THEN <<>>
        ELSE IF weight > 0 THEN <<RDiv(sum, Rat(weight, 1000))>> ELSE <<>>

\* line 37: the defaults of maxDepth, decayFactor and minConfidence
DefaultMaxDepth == 5

DefaultDecayFactor == Rat(4, 5)

DefaultMinConfidence == Rat(1, 10)

\* line 56: the cap of the search loop
MaxExplored == 5000

\* line 37: the query with its defaults
Query(q) ==
    [from |-> Get(q, "from"), to |-> Get(q, "to"), domain |-> Get(q, "domain"),
     maxDepth |-> IF Has(q, "maxDepth") THEN Get(q, "maxDepth") ELSE DefaultMaxDepth,
     decayFactor |-> IF Has(q, "decayFactor") THEN Get(q, "decayFactor") ELSE DefaultDecayFactor,
     minConfidence |-> IF Has(q, "minConfidence") THEN Get(q, "minConfidence")
                       ELSE DefaultMinConfidence]

\* lines 49-51: the queue starts with the edges that leave `from`
Seeds(edges, q) ==
    LET adj == Adjacency(edges, q.from, q.domain)
    IN  [k \in 1..Len(adj) |->
           [node |-> adj[k].to, path |-> <<q.from, adj[k].to>>, scores |-> <<adj[k].score>>,
            trust |-> adj[k].score, depth |-> 1]]

\* mutant of Expand: a hop multiplies the trust by the edge score only
ExpandWithoutDecay(edges, q, cur) ==
    LET adj == SelectSeq(Adjacency(edges, cur.node, q.domain),
                         LAMBDA e : \A n \in 1..Len(cur.path) : cur.path[n] # e.to)
    IN  [k \in 1..Len(adj) |->
           [node |-> adj[k].to, path |-> Append(cur.path, adj[k].to),
            scores |-> Append(cur.scores, adj[k].score),
            trust |-> RMul(cur.trust, adj[k].score),
            depth |-> cur.depth + 1]]

\* lines 71-77: the entries pushed for the edges that leave cur.node and do not
\* return to a node of the path
Expand(edges, q, cur) ==
    LET adj == SelectSeq(Adjacency(edges, cur.node, q.domain),
                         LAMBDA e : \A n \in 1..Len(cur.path) : cur.path[n] # e.to)
    IN  [k \in 1..Len(adj) |->
           [node |-> adj[k].to, path |-> Append(cur.path, adj[k].to),
            scores |-> Append(cur.scores, adj[k].score),
            trust |-> RMul(RMul(cur.trust, adj[k].score), q.decayFactor),
            depth |-> cur.depth + 1]]

\* lines 64-68: the path recorded on arrival at `to`
Arrived(q, cur) ==
    [path |-> cur.path, scores |-> cur.scores,
     finalTrust |-> RMul(cur.trust, RPow(q.decayFactor, cur.depth - 1)),
     decayApplied |-> RSub(One, RPow(q.decayFactor, cur.depth - 1))]

\* lines 57-60: the number of entries at the front of the queue that the loop
\* takes and drops because their key is in visited
LeadingVisited(queue, visited) ==
    LET fresh == {k \in 1..Len(queue) : <<queue[k].node, queue[k].depth>> \notin visited}
    IN  IF fresh = {} THEN Len(queue)
        ELSE (CHOOSE k \in fresh : \A j \in fresh : k <= j) - 1

\* lines 57-77: one pass of the loop over the state s of queue, visited,
\* explored and allPaths.  A run of entries whose key is in visited is taken in
\* one pass: each counts in explored (line 58) and is dropped (line 60), as long
\* as explored stays below the cap.
LoopBody(edges, q, s) ==
    LET cur == Head(s.queue)
        vkey == <<cur.node, cur.depth>>
        lead == LeadingVisited(s.queue, s.visited)
        skip == IF lead < MaxExplored - s.explored THEN lead ELSE MaxExplored - s.explored
        rest == [s EXCEPT !.queue = Tail(s.queue), !.visited = s.visited \cup {vkey},
                          !.explored = s.explored + 1]
    IN  IF skip > 0
        THEN [s EXCEPT !.queue = SubSeq(s.queue, skip + 1, Len(s.queue)),
                       !.explored = s.explored + skip]
        ELSE IF cur.node = q.to
        THEN [rest EXCEPT !.allPaths = Append(s.allPaths, Arrived(q, cur))]
        ELSE IF cur.depth >= q.maxDepth
        THEN rest
        ELSE IF RLess(RMul(cur.trust, RPow(q.decayFactor, cur.depth)), q.minConfidence)
        THEN rest
        ELSE [rest EXCEPT !.queue = Tail(s.queue) \o Expand(edges, q, cur)]

\* the pass of the loop that expands an entry whatever its depth
LoopBodyWithoutDepthLimit(edges, q, s) ==
    LET cur == Head(s.queue)
        vkey == <<cur.node, cur.depth>>
        lead == LeadingVisited(s.queue, s.visited)
        skip == IF lead < MaxExplored - s.explored THEN lead ELSE MaxExplored - s.explored
        rest == [s EXCEPT !.queue = Tail(s.queue), !.visited = s.visited \cup {vkey},
                          !.explored = s.explored + 1]
    IN  IF skip > 0
        THEN [s EXCEPT !.queue = SubSeq(s.queue, skip + 1, Len(s.queue)),
                       !.explored = s.explored + skip]
        ELSE IF cur.node = q.to
        THEN [rest EXCEPT !.allPaths = Append(s.allPaths, Arrived(q, cur))]
        ELSE IF RLess(RMul(cur.trust, RPow(q.decayFactor, cur.depth)), q.minConfidence)
        THEN rest
        ELSE [rest EXCEPT !.queue = Tail(s.queue) \o Expand(edges, q, cur)]

\* the pass of the loop that knows no cap
LoopBodyWithoutCap(edges, q, s) ==
    LET cur == Head(s.queue)
        vkey == <<cur.node, cur.depth>>
        lead == LeadingVisited(s.queue, s.visited)
        skip == lead
        rest == [s EXCEPT !.queue = Tail(s.queue), !.visited = s.visited \cup {vkey},
                          !.explored = s.explored + 1]
    IN  IF skip > 0
        THEN [s EXCEPT !.queue = SubSeq(s.queue, skip + 1, Len(s.queue)),
                       !.explored = s.explored + skip]
        ELSE IF cur.node = q.to
        THEN [rest EXCEPT !.allPaths = Append(s.allPaths, Arrived(q, cur))]
        ELSE IF cur.depth >= q.maxDepth
        THEN rest
        ELSE IF RLess(RMul(cur.trust, RPow(q.decayFactor, cur.depth)), q.minConfidence)
        THEN rest
        ELSE [rest EXCEPT !.queue = Tail(s.queue) \o Expand(edges, q, cur)]

\* the loop that expands an entry whatever its depth
RECURSIVE PassesWithoutDepthLimit(_, _, _)
PassesWithoutDepthLimit(edges, q, s) ==
    IF s.queue = <<>> \/ s.explored >= MaxExplored THEN s ELSE PassesWithoutDepthLimit(edges, q, LoopBodyWithoutDepthLimit(edges, q, s))

\* mutant of Search: an entry is expanded whatever its depth
SearchWithoutDepthLimit(edges, q, queue, visited, explored, allPaths) ==
    LET s == PassesWithoutDepthLimit(edges, q, [queue |-> queue, visited |-> visited, explored |-> explored,
                                                allPaths |-> allPaths])
    IN  [allPaths |-> s.allPaths, explored |-> s.explored]

\* the loop that knows no cap
RECURSIVE PassesWithoutCap(_, _, _)
PassesWithoutCap(edges, q, s) ==
    IF s.queue = <<>> THEN s ELSE PassesWithoutCap(edges, q, LoopBodyWithoutCap(edges, q, s))

\* mutant of Search: the loop runs until the queue is empty
SearchWithoutCap(edges, q, queue, visited, explored, allPaths) ==
    LET s == PassesWithoutCap(edges, q, [queue |-> queue, visited |-> visited, explored |-> explored,
                                         allPaths |-> allPaths])
    IN  [allPaths |-> s.allPaths, explored |-> s.explored]

\* line 56: `while (queue.length > 0 && explored < 5000)`, the state of the
\* loop when it ends
RECURSIVE Passes(_, _, _)
Passes(edges, q, s) ==
    IF s.queue = <<>> \/ s.explored >= MaxExplored THEN s ELSE Passes(edges, q, LoopBody(edges, q, s))

\* lines 56-78: the loop over the queue, and what is left of it at line 80
Search(edges, q, queue, visited, explored, allPaths) ==
    LET s == Passes(edges, q, [queue |-> queue, visited |-> visited, explored |-> explored,
                               allPaths |-> allPaths])
    IN  [allPaths |-> s.allPaths, explored |-> s.explored]

\* line 86: allPaths.sort((a, b) => b.finalTrust - a.finalTrust), a stable sort
RECURSIVE InsertByTrust(_, _)
InsertByTrust(sorted, p) ==
    IF sorted = <<>> THEN <<p>>
    ELSE IF RLess(sorted[1].finalTrust, p.finalTrust) THEN <<p>> \o sorted
    ELSE <<sorted[1]>> \o InsertByTrust(Tail(sorted), p)

RECURSIVE SortByTrust(_)
SortByTrust(paths) ==
    IF paths = <<>> THEN <<>>
    ELSE InsertByTrust(SortByTrust(SubSeq(paths, 1, Len(paths) - 1)), paths[Len(paths)])

\* mutant of Dampened: the further paths are added undamped
RECURSIVE DampenedFlat(_, _)
DampenedFlat(paths, i) ==
    IF i >= Len(paths) \/ i >= 5 THEN Zero
    ELSE RAdd(paths[i + 1].finalTrust, DampenedFlat(paths, i + 1))

\* lines 87-88: score = allPaths[0].finalTrust + sum of allPaths[i].finalTrust * 0.5^i
\* for 1 <= i < min(length, 5)
RECURSIVE Dampened(_, _)
Dampened(paths, i) ==
    IF i >= Len(paths) \/ i >= 5 THEN Zero
    ELSE RAdd(RMul(paths[i + 1].finalTrust, RPow(Rat(1, 2), i)), Dampened(paths, i + 1))

\* the empty best path of line 82
NoPath == [path |-> <<>>, scores |-> <<>>, finalTrust |-> Zero, decayApplied |-> Zero]

\* line 92: allPaths.slice(0, 10)
MaxPaths == 10

\* computeTransitiveTrust, lines 35-93.  `searched` is history: the loop ran.
ComputeTransitiveTrust(edges, q) ==
    LET direct == GetDirectTrust(edges, q.from, q.to, q.domain)
        found == Search(edges, q, Seeds(edges, q), {}, 0, <<>>)
        sorted == SortByTrust(found.allPaths)
    IN  IF direct # <<>>
        THEN LET path == [path |-> <<q.from, q.to>>, scores |-> direct,
                          finalTrust |-> direct[1], decayApplied |-> Zero]
             IN  [score |-> direct[1], confidence |-> One, paths |-> <<path>>,
                  bestPath |-> path, pathsExplored |-> 1, searched |-> FALSE]
        ELSE IF found.allPaths = <<>>
        THEN [score |-> Zero, confidence |-> Zero, paths |-> <<>>, bestPath |-> NoPath,
              pathsExplored |-> found.explored, searched |-> TRUE]
        ELSE [bestPath |-> sorted[1],
              score |-> RMin(RAdd(sorted[1].finalTrust, Dampened(sorted, 1)), One),
              confidence |-> RMin(One, Rat(Len(sorted), 3)),
              paths |-> SubSeq(sorted, 1, IF Len(sorted) < MaxPaths THEN Len(sorted) ELSE MaxPaths),
              pathsExplored |-> found.explored, searched |-> TRUE]

(***************************************************************************)
(* routes/trust.routes.ts: POST /trust/transitive                          *)
(***************************************************************************)
\* the transitive route answers at most this many requests in a run
MaxGraphOps == 1

\* the evaluations table holds at most this many rows when the route is asked
MaxEdges == 3

\* two of the realms the schema seeds
GraphRealms == {"ai", "technology"}

\* a row of evaluations as the INSERT of POST /trust/evaluations stores it; the
\* weight is in thousandths and has two decimals
GraphRow(from, to, realmId, domain, score, weight) ==
    [id |-> "cid_" \o sha256(ToString(<<domain, from, realmId, score, to, 0>>)),
     from_entity_id |-> from, to_entity_id |-> to, realm_id |-> realmId, domain |-> domain,
     score |-> score, weight |-> weight,
     signature |-> "sig(" \o ToString(<<domain, from, realmId, score, to, 0>>) \o ")",
     created_at |-> 0]

\* the rows the tables are made of: edges A->B with several scores and weights
\* and in two realms, the chain B->C, B->D, D->C, a direct edge A->C, an edge
\* of another domain, the edge back B->A and the self-evaluation A->A
GraphRows ==
    { GraphRow("A", "B", "ai", "d", 80, 1000),
      GraphRow("A", "B", "technology", "d", 40, 1000),
      GraphRow("A", "B", "ai", "d", 80, 0),
      GraphRow("A", "B", "ai", "d", 100, 1000),
      GraphRow("B", "C", "ai", "d", 100, 1000),
      GraphRow("A", "C", "technology", "d", 50, 500),
      GraphRow("B", "D", "ai", "d", 50, 1000),
      GraphRow("D", "C", "ai", "d", 80, 1000),
      GraphRow("A", "C", "ai", "e", 90, 1000),
      GraphRow("B", "A", "ai", "d", 50, 1000),
      GraphRow("A", "A", "ai", "d", 100, 1000) }

\* a table with more rows than the search explores: A evaluates B in realm "1",
\* in realm "2", and so on
WideTable == [k \in 1..(MaxExplored + 1) |-> GraphRow("A", "B", ToString(k), "d", 100, 1000)]

\* a table whose graph holds more paths from A to C than a result returns: the
\* chain A->N1->N2->... and an edge from each of its nodes to C, of score 50 or 100
LadderTable ==
    [k \in 1..(2 * MaxPaths + 2) |->
        IF k = 1 THEN GraphRow("A", "N1", "ai", "d", 100, 1000)
        ELSE IF k % 2 = 0
        THEN GraphRow("N" \o ToString(k \div 2), "C", "ai", "d", IF k % 4 = 0 THEN 100 ELSE 50, 1000)
        ELSE GraphRow("N" \o ToString(k \div 2), "N" \o ToString(k \div 2 + 1), "ai", "d", 100, 1000)]

\* the tables: rows in the order of their insertion, at most one per
\* (from, to, realm, domain), the UNIQUE constraint of the table
GraphTables ==
    { t \in UNION {[1..n -> GraphRows] : n \in 0..MaxEdges} :
        \A a, b \in 1..Len(t) : a # b => ~SameEdge(t[a], Edge(t[b])) }
    \cup {WideTable, LadderTable}

\* the request bodies: the queries A to B and A to C, with another decay factor,
\* restricted to a realm, with a depth limit, with a high minConfidence, the
\* query A to A, a deep search without decay, the query A to D with a medium
\* minConfidence, and one without `to`
TransQueries ==
    { <<<<"from", "A">>, <<"to", "B">>, <<"domain", "d">>>>,
      <<<<"from", "A">>, <<"to", "C">>, <<"domain", "d">>>>,
      <<<<"from", "A">>, <<"to", "C">>, <<"domain", "d">>, <<"decayFactor", Rat(1, 2)>>>>,
      <<<<"from", "A">>, <<"to", "B">>, <<"domain", "d">>, <<"realmId", "ai">>>>,
      <<<<"from", "A">>, <<"to", "C">>, <<"domain", "d">>, <<"realmId", "ai">>>>,
      <<<<"from", "A">>, <<"to", "C">>, <<"domain", "d">>, <<"maxDepth", 2>>>>,
      <<<<"from", "A">>, <<"to", "C">>, <<"domain", "d">>, <<"minConfidence", Rat(9, 10)>>>>,
      <<<<"from", "A">>, <<"to", "A">>, <<"domain", "d">>>>,
      <<<<"from", "A">>, <<"to", "C">>, <<"domain", "d">>, <<"maxDepth", MaxPaths + 2>>,
        <<"decayFactor", One>>, <<"minConfidence", Zero>>>>,
      <<<<"from", "A">>, <<"to", "D">>, <<"domain", "d">>, <<"minConfidence", Rat(1, 2)>>>>,
      <<<<"from", "A">>, <<"domain", "d">>>> }

\* a client asks POST /trust/transitive: lines 61-69
TransRequest(i, q) ==
    /\ Free(i)
    /\ \A j \in ReqIds : j < i => InFlight(j)
    /\ nops < MaxGraphOps
    /\ LET r == [IdleReq EXCEPT !.kind = "trans", !.n = nops + 1, !.with = InFlightNs,
                                !.inp = q]
       IN  req' = [req EXCEPT ![i] =
                     IF ~Has(q, "from") \/ ~Has(q, "to") \/ ~Has(q, "domain")
                     THEN Respond(r, 400, "VALIDATION_ERROR", <<>>)
                     ELSE [r EXCEPT !.pc = "trans_select"]]
    /\ nops' = nops + 1
    /\ overlap' = (overlap \/ \E j \in ReqIds : j # i /\ InFlight(j))
    /\ Finish(i)
    /\ UNCHANGED <<ENABLE_AUDIT_LOG, now, ticks, audit_log, lastHash, initialized, boots, tamper, storeVars>>

\* lines 66-76: the rows of the domain (and of the realm, if the query names one)
\* are read, the graph is loaded from them, and the result is returned
TransSelect(i) ==
    /\ req[i].pc = "trans_select"
    /\ LET q == req[i].inp
           rows == SelectSeq(evaluations,
                             LAMBDA row : /\ row.domain = Get(q, "domain")
                                          /\ Has(q, "realmId") => row.realm_id = Get(q, "realmId"))
           edges == LoadFromEvaluations(rows)
       IN  req' = [req EXCEPT ![i] =
                     Respond([req[i] EXCEPT !.loc = [edges |-> edges, q |-> Query(q)]],
                             200, "", ComputeTransitiveTrust(edges, Query(q)))]
    /\ Finish(i)
    /\ UNCHANGED <<ENABLE_AUDIT_LOG, now, ticks, audit_log, lastHash, initialized, nops, overlap,
                   boots, tamper, storeVars>>

(***************************************************************************)
(* crypto/index.ts: getMerkleRoot, generateMerkleProof, verifyMerkleProof  *)
(***************************************************************************)
\* line 42: leaves.map(l => sha256(l))
LeafHashes(leaves) == [k \in 1..Len(leaves) |-> sha256(leaves[k])]

\* lines 44-50: one pass of the while loop; a last hash without partner is
\* paired with itself
NextLevel(hashes) ==
    [k \in 1..((Len(hashes) + 1) \div 2) |->
        LET left == hashes[2 * k - 1]
            right == IF 2 * k <= Len(hashes) THEN hashes[2 * k] ELSE left
        IN  sha256(left \o right)]

\* lines 43-52: the loop runs until one hash is left
RECURSIVE RootOf(_)
RootOf(hashes) == IF Len(hashes) <= 1 THEN hashes[1] ELSE RootOf(NextLevel(hashes))

\* getMerkleRoot, lines 40-53
GetMerkleRoot(leaves) ==
    IF Len(leaves) = 0 THEN sha256("empty") ELSE RootOf(LeafHashes(leaves))

\* mutant of Siblings: every sibling is reported on the right
RECURSIVE SiblingsOnTheRight(_, _)
SiblingsOnTheRight(hashes, index) ==
    IF Len(hashes) <= 1 THEN <<>>
    ELSE LET i == 2 * (index \div 2)
             left == hashes[i + 1]
             right == IF i + 2 <= Len(hashes) THEN hashes[i + 2] ELSE left
         IN  <<[hash |-> IF i = index THEN right ELSE left, position |-> "right"]>>
             \o SiblingsOnTheRight(NextLevel(hashes), index \div 2)

\* lines 67-78: the siblings collected level by level; index counts from 0 and
\* i is the even position of the pair that holds it
RECURSIVE Siblings(_, _)
Siblings(hashes, index) ==
    IF Len(hashes) <= 1 THEN <<>>
    ELSE LET i == 2 * (index \div 2)
             left == hashes[i + 1]
             right == IF i + 2 <= Len(hashes) THEN hashes[i + 2] ELSE left
         IN  <<IF i = index THEN [hash |-> right, position |-> "right"]
                            ELSE [hash |-> left, position |-> "left"]>>
             \o Siblings(NextLevel(hashes), index \div 2)

\* generateMerkleProof, lines 62-80: <<>> is null, <<p>> the proof p
GenerateMerkleProof(leaves, idx) ==
    IF idx < 0 \/ idx >= Len(leaves) THEN <<>>
    ELSE <<[root |-> RootOf(LeafHashes(leaves)), leaf |-> sha256(leaves[idx + 1]),
            leafIndex |-> idx, siblings |-> Siblings(LeafHashes(leaves), idx)]>>

\* lines 83-86: the hash after the siblings were folded in
RECURSIVE FoldSiblings(_, _)
FoldSiblings(hash, siblings) ==
    IF siblings = <<>> THEN hash
    ELSE FoldSiblings(IF siblings[1].position = "left" THEN sha256(siblings[1].hash \o hash)
                                                       ELSE sha256(hash \o siblings[1].hash),
                      Tail(siblings))

\* verifyMerkleProof, lines 82-88
VerifyMerkleProof(proof) == FoldSiblings(proof.leaf, proof.siblings) = proof.root

\* the leaf lists have at most this many leaves
MaxLeaves == 5

\* the leaf lists: every list of up to MaxLeaves leaves over two values, so that
\* lists of odd and even length, single leaves and duplicate leaves occur
LeafLists == UNION {[1..n -> {"a", "b"}] : n \in 0..MaxLeaves}

\* generateMerkleProof(leaves, idx) is called, and the proof it returns is given
\* to verifyMerkleProof; getMerkleRoot(leaves) is called beside it.  One call is
\* made in a behaviour.
MerkleCall(i, leaves, idx) ==
    /\ req[i].pc = "idle"
    /\ LET proof == GenerateMerkleProof(leaves, idx)
           r == [IdleReq EXCEPT !.kind = "merkle", !.inp = [leaves |-> leaves, idx |-> idx]]
       IN  req' = [req EXCEPT ![i] =
                     Respond(r, 200, "",
                             [proof |-> proof,
                              verified |-> IF proof = <<>> THEN FALSE
                                           ELSE VerifyMerkleProof(proof[1]),
                              root |-> GetMerkleRoot(leaves)])]
    /\ UNCHANGED <<ENABLE_AUDIT_LOG, now, ticks, audit_log, lastHash, initialized, nops, overlap,
                   boots, tamper, storeVars, history>>

(***************************************************************************)
(* graph/trustGraph.ts: computeReputationWithDecay, lines 97-118           *)
(*                                                                         *)
(* Numbers are exact fractions.  Dates are milliseconds; the model's dates *)
(* are whole days apart and its ages whole multiples of the half-life, so  *)
(* that every power of 0.5 is a fraction.                                  *)
(***************************************************************************)
\* 1000 * 60 * 60 * 24, line 105
DayMs == 86400000

\* (now.getTime() - date.getTime()) / (1000 * 60 * 60 * 24), lines 105 and 112
DaysSince(date, at) == (at - date) \div DayMs

\* Math.pow(0.5, days / halfLifeDays), for days a multiple of halfLifeDays
HalfPow(days, halfLifeDays) ==
    LET k == days \div halfLifeDays
    IN  IF k >= 0 THEN Rat(1, 2 ^ k) ELSE Rat(2 ^ (0 - k), 1)

\* line 106: w = e.weight * Math.pow(0.5, ageDays / config.halfLifeDays); the
\* product converts the NUMERIC text to its number
DecayedWeight(e, config, at) ==
    RMul(Rat(e.weight, 1000), HalfPow(DaysSince(e.created_at, at), config.halfLifeDays))

\* lines 104-108: sum += e.score * w.  The numbers are exact, so the sum over
\* the list is the sum over its first half plus the sum over its second half.
RECURSIVE DecayedSum(_, _, _)
DecayedSum(evals, config, at) ==
    IF evals = <<>> THEN Zero
    ELSE IF Len(evals) = 1
    THEN RMul(Rat(evals[1].score, 1), DecayedWeight(evals[1], config, at))
    ELSE RAdd(DecayedSum(SubSeq(evals, 1, Len(evals) \div 2), config, at),
              DecayedSum(SubSeq(evals, Len(evals) \div 2 + 1, Len(evals)), config, at))

\* lines 104-108: weight += w, summed as in DecayedSum
RECURSIVE DecayedTotal(_, _, _)
DecayedTotal(evals, config, at) ==
    IF evals = <<>> THEN Zero
    ELSE IF Len(evals) = 1 THEN DecayedWeight(evals[1], config, at)
    ELSE RAdd(DecayedTotal(SubSeq(evals, 1, Len(evals) \div 2), config, at),
              DecayedTotal(SubSeq(evals, Len(evals) \div 2 + 1, Len(evals)), config, at))

\* Math.round(x * m) / m for x >= 0: the nearest multiple of 1/m, halves upwards
RoundTo(x, m) == Rat((2 * x.n * m + x.d) \div (2 * x.d), m)

RMax(a, b) == IF RLess(a, b) THEN b ELSE a

\* lines 110-111: the attestation bonus
AttestationBonus(input) ==
    IF input.verifiedAttestationCount > 0
    THEN RMul(RMul(Rat(input.verifiedAttestationCount, input.attestationCount), Rat(10, 1)),
              RMin(Rat(input.verifiedAttestationCount, 5), One))
    ELSE Zero

\* lines 112-113: Math.max(0, (staleDays - config.halfLifeDays) * 0.1)
StalenessPenalty(staleDays, config) ==
    IF staleDays > config.halfLifeDays THEN Rat(staleDays - config.halfLifeDays, 10) ELSE Zero

\* line 114: Math.max(minScore, Math.min(maxScore, raw + bonus - penalty)), for
\* minScore >= 0 (a sum below minScore is not formed: the result is minScore)
ClampedScore(raw, bonus, penalty, config) ==
    IF RLess(RAdd(raw, bonus), RAdd(penalty, config.minScore)) THEN config.minScore
    ELSE RMax(config.minScore, RMin(config.maxScore, RSub(RAdd(raw, bonus), penalty)))

\* computeReputationWithDecay, lines 97-118; `at` is the new Date() of line 102
ComputeReputationWithDecay(input, config, at) ==
    LET sum == DecayedSum(input.evaluations, config, at)
        weight == DecayedTotal(input.evaluations, config, at)
        raw == IF RLess(Zero, weight) THEN RDiv(sum, weight) ELSE Rat(50, 1)
        bonus == AttestationBonus(input)
        staleDays == DaysSince(input.newestEvaluationDate, at)
        penalty == StalenessPenalty(staleDays, config)
        score == ClampedScore(raw, bonus, penalty, config)
        confidence == RMul(RMin(One, Rat(Len(input.evaluations), 10)),
                           HalfPow(staleDays, config.halfLifeDays))
    IN  [score |-> RoundTo(score, 10), confidence |-> RoundTo(confidence, 100),
         breakdown |-> [rawScore |-> RoundTo(raw, 10), attestationBonus |-> RoundTo(bonus, 10),
                        decayPenalty |-> RoundTo(penalty, 10)]]

\* calls of computeReputationWithDecay in one behaviour
MaxCalls == 2

\* the evaluations of a subject: scores, weights in thousandths, creation dates
RepEvalRows ==
    { [score |-> 80, weight |-> 1000, created_at |-> 0],
      [score |-> 40, weight |-> 500, created_at |-> 2 * DayMs],
      [score |-> 40, weight |-> 1000, created_at |-> 4 * DayMs],
      [score |-> 90, weight |-> 0, created_at |-> 4 * DayMs] }

\* the lists of evaluations: every single row, three pairs, and a list of eleven
RepEvalLists ==
    { <<e>> : e \in RepEvalRows }
    \cup { <<[score |-> 80, weight |-> 1000, created_at |-> 0],
              [score |-> 40, weight |-> 500, created_at |-> 2 * DayMs]>>,
            <<[score |-> 40, weight |-> 1000, created_at |-> 4 * DayMs],
              [score |-> 80, weight |-> 1000, created_at |-> 0]>>,
            <<[score |-> 90, weight |-> 0, created_at |-> 4 * DayMs],
              [score |-> 40, weight |-> 500, created_at |-> 2 * DayMs]>>,
            [k \in 1..11 |-> [score |-> 80, weight |-> 1000, created_at |-> 0]] }

\* Math.max(...timestamps) and Math.min(...timestamps), route line 102
NewestOf(evals) ==
    LET t == {evals[k].created_at : k \in 1..Len(evals)} IN CHOOSE x \in t : \A y \in t : y <= x

OldestOf(evals) ==
    LET t == {evals[k].created_at : k \in 1..Len(evals)} IN CHOOSE x \in t : \A y \in t : x <= y

\* the inputs the route builds (line 103): the evaluations, the number of the
\* subject's attestations and of those counted as verified, the two dates
RepInputs ==
    { [evaluations |-> evals, attestationCount |-> c[1], verifiedAttestationCount |-> c[2],
       oldestEvaluationDate |-> OldestOf(evals), newestEvaluationDate |-> NewestOf(evals)] :
         evals \in RepEvalLists, c \in {<<0, 0>>, <<2, 1>>, <<5, 5>>} }

\* the configs: the half-life the realm's rules name ("1d", "2d", "-2d" pass
\* line 100 as 1, 2, -2), the minScore of the rules, and maxScore
RepConfigs ==
    { [halfLifeDays |-> h, minScore |-> b[1], maxScore |-> b[2]] :
        h \in {1, 2, -2},
        b \in {<<Zero, Rat(100, 1)>>, <<Rat(1251, 25), Rat(100, 1)>>, <<Zero, Rat(60, 1)>>} }

\* computeReputationWithDecay is called and returns
RepCall(i, input, config) ==
    /\ Free(i)
    /\ nops < MaxCalls
    /\ LET r == [IdleReq EXCEPT !.kind = "repcall", !.n = nops + 1,
                                !.inp = [input |-> input, config |-> config],
                                !.loc = [at |-> now]]
       IN  req' = [req EXCEPT ![i] =
                     Respond(r, 200, "", ComputeReputationWithDecay(input, config, now))]
    /\ nops' = nops + 1
    /\ Finish(i)
    /\ UNCHANGED <<ENABLE_AUDIT_LOG, now, ticks, audit_log, lastHash, initialized, overlap, boots,
                   tamper, storeVars>>

(***************************************************************************)
(* routes/proofs.routes.ts: POST /proofs/generate, POST /proofs/evidence-proof *)
(***************************************************************************)
\* requests started in one behaviour of the proof routes
MaxProofOps == 3

\* line 24
IssuerId == "irrl-instance-001"

\* the request bodies of /generate: the subject the evaluations are about, with
\* and without validForDays, one without `domain`, one for a subject nothing is
\* known about
GenBodies ==
    { <<<<"subject", "S">>, <<"realmId", "R">>, <<"domain", "d1">>>>,
      <<<<"subject", "S">>, <<"realmId", "R">>, <<"domain", "d1">>, <<"validForDays", 1>>>>,
      <<<<"subject", "S">>, <<"realmId", "R">>>>,
      <<<<"subject", "T">>, <<"realmId", "R">>, <<"domain", "d1">>>> }

\* line 32: the destructured body, validForDays = 7 by default; a missing field
\* is undefined
GenFields(body) ==
    [subject |-> IF Has(body, "subject") THEN Get(body, "subject") ELSE "",
     realmId |-> IF Has(body, "realmId") THEN Get(body, "realmId") ELSE "",
     domain |-> IF Has(body, "domain") THEN Get(body, "domain") ELSE "",
     validForDays |-> IF Has(body, "validForDays") THEN Get(body, "validForDays") ELSE 7]

\* line 125: contentId({subject, realmId, domain, issuedAt}), keys sorted
ProofContentId(f, issuedAt) ==
    "cid_" \o sha256(ToString(<<f.domain, issuedAt, f.realmId, f.subject>>))

\* ORDER BY id compares the stored texts "cid_" + 64 hexadecimal digits.  The ids
\* of the evaluations of EvalBodies that are stored, for ts = 0, 1, 2, in the
\* ascending order of their SHA-256 digests (crypto/index.ts lines 3-10):
\*   003d677d.. (A, 40, 2)   14824b76.. (A, 80, 0)   287138ac.. (A, 80, 1)
\*   362c0c48.. (B, 60, 1)   c4882df3.. (B, 60, 2)   ce00e43b.. (A, 40, 0)
\*   d81a4277.. (A, 80, 2)   d93b2408.. (B, 60, 0)   da4175f1.. (A, 40, 1)
DigestOrder ==
    LET id(from, score, ts) ==
            EvalContentId([domain |-> "d1", from |-> from, realmId |-> "R", score |-> score,
                           to |-> "S"], ts)
    IN  <<id("A", 40, 2), id("A", 80, 0), id("A", 80, 1), id("B", 60, 1), id("B", 60, 2),
          id("A", 40, 0), id("A", 80, 2), id("B", 60, 0), id("A", 40, 1)>>

IdRank(id) ==
    IF \E n \in 1..Len(DigestOrder) : DigestOrder[n] = id
    THEN CHOOSE n \in 1..Len(DigestOrder) : DigestOrder[n] = id
    ELSE Len(DigestOrder) + 1

RECURSIVE IdInsert(_, _)
IdInsert(id, sorted) ==
    IF sorted = <<>> THEN <<id>>
    ELSE IF IdRank(id) < IdRank(sorted[1])
         THEN <<id>> \o sorted
         ELSE <<sorted[1]>> \o IdInsert(id, Tail(sorted))

\* the ids a SELECT id ... ORDER BY id returns
RECURSIVE OrderById(_)
OrderById(ids) ==
    IF ids = <<>> THEN <<>> ELSE IdInsert(ids[1], OrderById(Tail(ids)))

\* the ids of a sequence of rows, in the order of the rows
IdsOf(rows) == [k \in 1..Len(rows) |-> rows[k].id]

\* WHERE subject_id = $1 AND realm_id = $2 AND status = 'verified', lines 64 and 316
VerifiedAttestations(subject, realmId) ==
    SelectSeq(attestations, LAMBDA a : /\ a.subject_id = subject /\ a.realm_id = realmId
                                       /\ a.status = "verified")

\* WHERE to_entity_id = $1 AND realm_id = $2 AND domain = $3, lines 72 and 321
EvaluationsOf(subject, realmId, domain) ==
    SelectSeq(evaluations, LAMBDA e : /\ e.to_entity_id = subject /\ e.realm_id = realmId
                                      /\ e.domain = domain)

\* lines 80-82
EvidenceRoot(evidenceLeaves) ==
    IF Len(evidenceLeaves) > 0 THEN GetMerkleRoot(evidenceLeaves) ELSE "empty"

\* line 23: the key pair generateKeyPair() returns when the module is loaded, and
\* a key pair generated anywhere else
InstanceKeys == [publicKey |-> "pk_instance", privateKey |-> "sk_instance"]

ForeignKeys == [publicKey |-> "pk_foreign", privateKey |-> "sk_foreign"]

KeyPairs == {InstanceKeys, ForeignKeys}

\* crypto/index.ts lines 22-24: the Ed25519 signature of `data` under `privateKey`
\* (Ed25519 is deterministic: one signature per message and key)
Sign(data, privateKey) == <<"ed25519", privateKey, data>>

\* crypto/index.ts lines 26-30: true for the signature the private key of
\* `publicKey` makes over `data`; false for any other signature and, through the
\* catch, for a text that is no key
Verify(data, signature, publicKey) ==
    \E kp \in KeyPairs : kp.publicKey = publicKey /\ signature = Sign(data, kp.privateKey)

\* the fields of a signed object whose value is an object (a Date is written as
\* its toISOString() text and is a text here)
ObjectFields == {"reputation"}

\* JSON.stringify(obj, Object.keys(obj).sort()), crypto/index.ts lines 33 and 37:
\* the array replacer is the list of the property names written at EVERY level,
\* so of an object inside obj only the properties named like a property of obj
\* are written.  The text is represented by the properties it holds.
Canonical(obj) ==
    [k \in DOMAIN obj |->
        IF k \in ObjectFields
        THEN [j \in (DOMAIN obj[k]) \cap (DOMAIN obj) |-> obj[k][j]]
        ELSE obj[k]]

\* mutant of Canonical: every property of every level is written
CanonicalWholeRecord(obj) == obj

\* crypto/index.ts lines 32-34
SignObject(obj, privateKey) == Sign(Canonical(obj), privateKey)

\* crypto/index.ts lines 36-38
VerifyObject(obj, signature, publicKey) == Verify(Canonical(obj), signature, publicKey)

\* lines 88-113: proofData, without reputation.breakdown.  A Date and the ISO
\* text JSON.stringify writes for it are both the instant in milliseconds.
ProofData(f, reputation, issuedAt, root) ==
    [version |-> "IRRL-Proof-v1", subject |-> f.subject, realmId |-> f.realmId,
     domain |-> f.domain,
     reputation |-> [subject |-> f.subject, realmId |-> f.realmId, domain |-> f.domain,
                     score |-> reputation.score, confidence |-> reputation.confidence,
                     evaluationCount |-> reputation.evaluation_count,
                     attestationCount |-> reputation.attestation_count,
                     computedAt |-> issuedAt,
                     validUntil |-> issuedAt + f.validForDays * DayMs],
     issuer |-> IssuerId, issuedAt |-> issuedAt,
     validUntil |-> issuedAt + f.validForDays * DayMs, evidenceMerkleRoot |-> root]

\* crypto/index.ts lines 90-94: generateSignedProof(data, privateKey, publicKey),
\* `timestamp` the new Date() of line 91
GenerateSignedProof(data, privateKey, publicKey, timestamp) ==
    LET proofData == [timestamp |-> timestamp, version |-> "IRRL-Proof-v1"] @@ data
    IN  [data |-> proofData, signature |-> SignObject(proofData, privateKey),
         publicKey |-> publicKey, timestamp |-> timestamp, version |-> "IRRL-Proof-v1"]

\* crypto/index.ts lines 96-98
VerifySignedProof(proof) == VerifyObject(proof.data, proof.signature, proof.publicKey)

\* lines 127-143: the row the INSERT stores.  attestationIds and evaluationIds are
\* history: the evidence the root was computed from, as the handler read it.
ProofRow(l) ==
    [id |-> l.proofId, subject_id |-> l.subject, realm_id |-> l.realmId, domain |-> l.domain,
     version |-> "IRRL-Proof-v1", reputation_data |-> l.proofData.reputation,
     evidence_merkle_root |-> l.proofData.evidenceMerkleRoot,
     signature |-> l.signedProof.signature, issuer |-> IssuerId,
     valid_until |-> l.proofData.validUntil,
     attestationIds |-> l.attestationIds, evaluationIds |-> l.evaluationIds]

\* the arguments of logProofGenerated, line 146 and auditLog.ts lines 64-66
ProofLogArgs(l) ==
    [type |-> "proof.generated", actor |-> "api",
     entityIds |-> <<l.proofId, l.subject, l.realmId>>,
     payload |-> <<<<"proofId", l.proofId>>, <<"subject", l.subject>>, <<"realm", l.realmId>>>>]

\* a client sends POST /proofs/generate: lines 32-39
ProofGenerate(i, body) ==
    /\ Free(i)
    /\ \A j \in ReqIds : j < i => InFlight(j)
    /\ nops < MaxProofOps
    /\ LET f == GenFields(body)
           r == [IdleReq EXCEPT !.kind = "proof", !.n = nops + 1, !.with = InFlightNs,
                                !.inp = body]
       IN  req' = [req EXCEPT ![i] =
                     IF f.subject = "" \/ f.realmId = "" \/ f.domain = ""
                     THEN Respond(r, 400, "VALIDATION_ERROR", <<>>)
                     ELSE [r EXCEPT !.pc = "gen_reputation", !.loc = f]]
    /\ nops' = nops + 1
    /\ overlap' = (overlap \/ \E j \in ReqIds : j # i /\ InFlight(j))
    /\ Finish(i)
    /\ UNCHANGED <<ENABLE_AUDIT_LOG, now, ticks, audit_log, lastHash, initialized, boots, tamper, storeVars>>

\* lines 42-60: the cache row is read, whatever its valid_until
GenReputation(i) ==
    /\ req[i].pc = "gen_reputation"
    /\ LET hits == {c \in reputation_cache : /\ c.subject_id = req[i].loc.subject
                                             /\ c.realm_id = req[i].loc.realmId
                                             /\ c.domain = req[i].loc.domain}
       IN  req' = [req EXCEPT ![i] =
                     IF hits = {}
                     THEN Respond(req[i], 404, "NOT_FOUND", <<>>)
                     ELSE [req[i] EXCEPT !.pc = "gen_attestations",
                                         !.loc = @ @@ [reputation |-> CHOOSE c \in hits : TRUE]]]
    /\ Finish(i)
    /\ UNCHANGED <<ENABLE_AUDIT_LOG, now, ticks, audit_log, lastHash, initialized, nops, overlap,
                   boots, tamper, storeVars>>

\* lines 63-68: the verified attestations are read, without ORDER BY: in the
\* order of the table
GenAttestations(i) ==
    /\ req[i].pc = "gen_attestations"
    /\ req' = [req EXCEPT ![i].pc = "gen_evaluations",
                          ![i].loc = @ @@ [attestationIds |->
                                             IdsOf(VerifiedAttestations(@.subject, @.realmId))]]
    /\ UNCHANGED <<ENABLE_AUDIT_LOG, now, ticks, audit_log, lastHash, initialized, nops, overlap,
                   boots, tamper, storeVars, history>>

\* lines 71-125: the evaluations are read, without ORDER BY; the root, the proof
\* and its id are built and the INSERT is issued
GenEvaluations(i) ==
    /\ req[i].pc = "gen_evaluations"
    /\ LET l == req[i].loc
           evaluationIds == IdsOf(EvaluationsOf(l.subject, l.realmId, l.domain))
           evidenceLeaves == l.attestationIds \o evaluationIds
           proofData == ProofData(l, l.reputation, now, EvidenceRoot(evidenceLeaves))
       IN  req' = [req EXCEPT ![i].pc = "gen_insert",
                              ![i].loc = @ @@ [evaluationIds |-> evaluationIds,
                                               evidenceLeaves |-> evidenceLeaves,
                                               proofData |-> proofData,
                                               signedProof |-> GenerateSignedProof(proofData, InstanceKeys.privateKey,
                                                                                  InstanceKeys.publicKey, now),
                                               proofId |-> ProofContentId(l, now)]]
    /\ UNCHANGED <<ENABLE_AUDIT_LOG, now, ticks, audit_log, lastHash, initialized, nops, overlap,
                   boots, tamper, storeVars, history>>

\* lines 127-146: the INSERT is executed (the primary key rejects a second proof
\* of the same id), then logProofGenerated is called
GenInsert(i) ==
    /\ req[i].pc = "gen_insert"
    /\ IF \E k \in 1..Len(proofs) : proofs[k].id = req[i].loc.proofId
       THEN /\ proofs' = proofs
            /\ req' = [req EXCEPT ![i] = Respond(req[i], 500, "INTERNAL_ERROR", <<>>)]
       ELSE /\ proofs' = Append(proofs, ProofRow(req[i].loc))
            /\ req' = [req EXCEPT ![i] = LogBegin(req[i], ProofLogArgs(req[i].loc))]
    /\ Finish(i)
    /\ UNCHANGED <<ENABLE_AUDIT_LOG, now, ticks, audit_log, lastHash, initialized, nops, overlap,
                   boots, tamper, realms, evaluations, reputation_cache, attestations,
                   verification_runs>>

\* the proofs POST /proofs/generate has answered with
Issued ==
    {history[k].resp.data.proof :
        k \in {j \in 1..Len(history) : history[j].kind = "proof" /\ history[j].resp.code = 201}}

\* an issued proof with the value of one field changed, signature and key as issued
Altered(p) ==
    { [p EXCEPT !.data.reputation.score = IF @ = 0 THEN 1000 ELSE 0],
      [p EXCEPT !.data.reputation.confidence = IF @ = 100 THEN 0 ELSE 100],
      [p EXCEPT !.data.reputation.evaluationCount = @ + 1],
      [p EXCEPT !.data.reputation.subject = IF @ = "T" THEN "S" ELSE "T"],
      [p EXCEPT !.data.subject = IF @ = "T" THEN "S" ELSE "T"],
      [p EXCEPT !.data.validUntil = @ + DayMs],
      [p EXCEPT !.data.issuer = "irrl-instance-002"],
      [p EXCEPT !.data.evidenceMerkleRoot = "h(other)"] }

\* a proof signed again by the holder of another key pair, which it encloses
Resigned(p) ==
    [p EXCEPT !.signature = SignObject(p.data, ForeignKeys.privateKey),
              !.publicKey = ForeignKeys.publicKey]

\* a proof nobody issued: made and signed outside the instance, naming `issuer`
Forged(issuer) ==
    LET f == [subject |-> "T", realmId |-> "R", domain |-> "d1", validForDays |-> 7]
        reputation == [score |-> 1000, confidence |-> 100, evaluation_count |-> 10,
                       attestation_count |-> 0]
        data == [ProofData(f, reputation, 0, "empty") EXCEPT !.issuer = issuer]
    IN  GenerateSignedProof(data, ForeignKeys.privateKey, ForeignKeys.publicKey, 0)

\* the bodies of /verify: none, a proof without its key, a proof whose key is no
\* key, the issued proofs as issued, altered, signed again, and forged ones
VerifyBodies ==
    {<<>>}
    \cup {<<[p EXCEPT !.publicKey = ""]>> : p \in Issued}
    \cup {<<[p EXCEPT !.publicKey = "not a key"]>> : p \in Issued}
    \cup {<<p>> : p \in Issued}
    \cup {<<q>> : q \in UNION {Altered(p) : p \in Issued}}
    \cup {<<Resigned(p)>> : p \in Issued}
    \cup {<<Forged(IssuerId)>>, <<Forged("irrl-instance-002")>>}

\* mutant of Expired: no proof expires
ExpiredNever(validUntil, at) == FALSE

\* lines 184-185: validUntil < new Date()
Expired(validUntil, at) == validUntil < at

\* line 188
IssuerTrusted(proof) == proof.data.issuer = IssuerId

\* lines 181-196: the result of the three checks
VerifyResult(proof, at) ==
    LET signatureValid == VerifySignedProof(proof)
        expired == Expired(proof.data.validUntil, at)
        issuerTrusted == IssuerTrusted(proof)
    IN  [valid |-> signatureValid /\ ~expired /\ issuerTrusted,
         signatureValid |-> signatureValid, expired |-> expired,
         issuerTrusted |-> issuerTrusted,
         proofData |-> IF signatureValid THEN <<proof.data>> ELSE <<>>]

\* lines 199-202
VerifyErrors(result) ==
    (IF ~result.signatureValid THEN <<"Invalid signature">> ELSE <<>>)
    \o (IF result.expired THEN <<"Proof has expired">> ELSE <<>>)
    \o (IF ~result.issuerTrusted THEN <<"Untrusted issuer">> ELSE <<>>)

\* a client sends POST /proofs/verify: lines 169-213, a handler without await
ProofVerify(i, body) ==
    /\ Free(i)
    /\ \A j \in ReqIds : j < i => InFlight(j)
    /\ nops < MaxProofOps
    /\ LET r == [IdleReq EXCEPT !.kind = "proofverify", !.n = nops + 1, !.with = InFlightNs,
                                !.inp = body, !.loc = [at |-> now]]
       IN  req' = [req EXCEPT ![i] =
                     IF body = <<>> \/ body[1].publicKey = ""
                     THEN Respond(r, 400, "VALIDATION_ERROR", <<>>)
                     ELSE LET result == VerifyResult(body[1], now)
                          IN  IF result.valid
                              THEN Respond(r, 200, "", result)
                              ELSE Respond(r, 200, "", [errors |-> VerifyErrors(result)] @@ result)]
    /\ nops' = nops + 1
    /\ overlap' = (overlap \/ \E j \in ReqIds : j # i /\ InFlight(j))
    /\ Finish(i)
    /\ UNCHANGED <<ENABLE_AUDIT_LOG, now, ticks, audit_log, lastHash, initialized, boots, tamper, storeVars>>

\* the bodies of /evidence-proof: the id of a stored proof, of none, or none at
\* all, with the id of a stored evaluation or of none
EvidenceBodies ==
    [proofId : {proofs[k].id : k \in 1..Len(proofs)} \cup {"cid_none", ""},
     evidenceId : {evaluations[k].id : k \in 1..Len(evaluations)} \cup {"cid_none"}]

\* a client sends POST /proofs/evidence-proof: lines 290-297
EvidenceProof(i, body) ==
    /\ Free(i)
    /\ \A j \in ReqIds : j < i => InFlight(j)
    /\ nops < MaxProofOps
    /\ LET r == [IdleReq EXCEPT !.kind = "evidence", !.n = nops + 1, !.with = InFlightNs,
                                !.inp = body]
       IN  req' = [req EXCEPT ![i] =
                     IF body.proofId = "" \/ body.evidenceId = ""
                     THEN Respond(r, 400, "VALIDATION_ERROR", <<>>)
                     ELSE [r EXCEPT !.pc = "evp_proof"]]
    /\ nops' = nops + 1
    /\ overlap' = (overlap \/ \E j \in ReqIds : j # i /\ InFlight(j))
    /\ Finish(i)
    /\ UNCHANGED <<ENABLE_AUDIT_LOG, now, ticks, audit_log, lastHash, initialized, boots, tamper, storeVars>>

\* lines 300-312: the proof is read
EvpProof(i) ==
    /\ req[i].pc = "evp_proof"
    /\ LET hits == SelectSeq(proofs, LAMBDA p : p.id = req[i].inp.proofId)
       IN  req' = [req EXCEPT ![i] =
                     IF Len(hits) = 0
                     THEN Respond(req[i], 404, "NOT_FOUND", <<>>)
                     ELSE [req[i] EXCEPT !.pc = "evp_attestations", !.loc = [proof |-> hits[1]]]]
    /\ Finish(i)
    /\ UNCHANGED <<ENABLE_AUDIT_LOG, now, ticks, audit_log, lastHash, initialized, nops, overlap,
                   boots, tamper, storeVars>>

\* lines 315-318: the verified attestations of today, ORDER BY id
EvpAttestations(i) ==
    /\ req[i].pc = "evp_attestations"
    /\ LET p == req[i].loc.proof
       IN  req' = [req EXCEPT ![i].pc = "evp_evaluations",
                              ![i].loc = @ @@ [attestations |->
                                   OrderById(IdsOf(VerifiedAttestations(p.subject_id, p.realm_id)))]]
    /\ UNCHANGED <<ENABLE_AUDIT_LOG, now, ticks, audit_log, lastHash, initialized, nops, overlap,
                   boots, tamper, storeVars, history>>

\* lines 320-358: the evaluations of today, ORDER BY id; the leaf is looked up,
\* the Merkle proof generated and its root compared with the stored root
EvpEvaluations(i) ==
    /\ req[i].pc = "evp_evaluations"
    /\ LET p == req[i].loc.proof
           evidenceLeaves ==
               req[i].loc.attestations
               \o OrderById(IdsOf(EvaluationsOf(p.subject_id, p.realm_id, p.domain)))
           found == {k \in 1..Len(evidenceLeaves) : evidenceLeaves[k] = req[i].inp.evidenceId}
           leafIndex == IF found = {} THEN 0 - 1
                        ELSE (CHOOSE k \in found : \A m \in found : k <= m) - 1
           merkleProof == GenerateMerkleProof(evidenceLeaves, leafIndex)
           r == [req[i] EXCEPT !.loc = @ @@ [evidenceLeaves |-> evidenceLeaves]]
       IN  req' = [req EXCEPT ![i] =
                     IF leafIndex = 0 - 1
                     THEN Respond(r, 404, "NOT_FOUND", <<>>)
                     ELSE IF merkleProof = <<>>
                          THEN Respond(r, 500, "INTERNAL_ERROR", <<>>)
                          ELSE Respond(r, 200, "",
                                       [merkleProof |-> merkleProof[1],
                                        valid |-> merkleProof[1].root = p.evidence_merkle_root,
                                        evidenceId |-> req[i].inp.evidenceId,
                                        proofId |-> req[i].inp.proofId])]
    /\ Finish(i)
    /\ UNCHANGED <<ENABLE_AUDIT_LOG, now, ticks, audit_log, lastHash, initialized, nops, overlap,
                   boots, tamper, storeVars>>

(***************************************************************************)
(* routes/realms.routes.ts: POST /realms, and the trigger compute_realm_path *)
(***************************************************************************)
\* requests started in one behaviour of the realm route
MaxRealmOps == 3

\* line 14: contentId({name, domain, ts}), keys sorted, "cid_" replaced by "realm_"
RealmContentId(name, domain, ts) == "realm_" \o sha256(ToString(<<domain, name, ts>>))

\* line 19: SELECT id FROM realms WHERE id = $1 OR path = $1
ParentRows(parent) == {r \in realms : <<r.id>> = parent \/ r.path = parent}

\* mutant of ComputeRealmPath: every realm is stored as a realm without parent
ComputeRealmPathOfRoot(new, parentRow) == [new EXCEPT !.path = <<new.id>>, !.depth = 0]

\* crypto/index.ts lines 318-323, BEFORE INSERT: path and depth of the new row;
\* parentRow is the row of NEW.parent_id
ComputeRealmPath(new, parentRow) ==
    IF new.parent_id = <<>>
    THEN [new EXCEPT !.path = <<new.id>>, !.depth = 0]
    ELSE [new EXCEPT !.path = parentRow.path \o <<new.id>>, !.depth = parentRow.depth + 1]

\* the arguments of logRealmCreated, line 32 and auditLog.ts lines 52-54
RealmLogArgs(r) ==
    [type |-> "realm.created", actor |-> "api", entityIds |-> <<r.loc.realmId>>,
     payload |-> <<<<"realm", ToString(r.inp)>>>>]

\* the bodies of POST /realms: with and without name, without parent, with the
\* id or the path of a stored realm as parent, with a parent nothing is stored for
RealmBodies ==
    LET parents == {<<r.id>> : r \in realms} \cup {r.path : r \in realms} \cup {<<"nowhere">>}
    IN  {<<<<"domain", "d">>>>}
        \cup {<<<<"name", n>>, <<"domain", "d">>>> : n \in {"n1", "n2"}}
        \cup {<<<<"name", n>>, <<"domain", "d">>, <<"parent", q>>>> :
                 n \in {"n1", "n2"}, q \in parents}

\* a client sends POST /realms: lines 11-19
RealmCreate(i, body) ==
    /\ Free(i)
    /\ \A j \in ReqIds : j < i => InFlight(j)
    /\ nops < MaxRealmOps
    /\ LET r == [IdleReq EXCEPT !.kind = "realm", !.n = nops + 1, !.with = InFlightNs,
                                !.inp = body]
       IN  req' = [req EXCEPT ![i] =
                     IF ~Has(body, "name") \/ ~Has(body, "domain")
                     THEN Respond(r, 400, "VALIDATION_ERROR", <<>>)
                     ELSE LET realmId == RealmContentId(Get(body, "name"), Get(body, "domain"), now)
                          IN  IF Has(body, "parent")
                              THEN [r EXCEPT !.pc = "realm_parent",
                                             !.loc = [realmId |-> realmId, parentId |-> <<>>]]
                              ELSE [r EXCEPT !.pc = "realm_insert",
                                             !.loc = [realmId |-> realmId, parentId |-> <<>>]]]
    /\ nops' = nops + 1
    /\ overlap' = (overlap \/ \E j \in ReqIds : j # i /\ InFlight(j))
    /\ Finish(i)
    /\ UNCHANGED <<ENABLE_AUDIT_LOG, now, ticks, audit_log, lastHash, initialized, boots, tamper, storeVars>>

\* lines 19-21: the parent query is answered (queryOne: one of the rows found)
RealmParent(i) ==
    /\ req[i].pc = "realm_parent"
    /\ LET found == ParentRows(Get(req[i].inp, "parent"))
       IN  IF found = {}
           THEN req' = [req EXCEPT ![i] = Respond(req[i], 400, "INVALID_PARENT", <<>>)]
           ELSE \E p \in found :
                   req' = [req EXCEPT ![i].pc = "realm_insert", ![i].loc.parentId = <<p.id>>]
    /\ Finish(i)
    /\ UNCHANGED <<ENABLE_AUDIT_LOG, now, ticks, audit_log, lastHash, initialized, nops, overlap,
                   boots, tamper, storeVars>>

\* lines 27-28: the INSERT is executed: the trigger computes path and depth; the
\* primary key rejects a second row of the id, UNIQUE a second row of the path,
\* NOT NULL a path computed from no parent row
RealmInsert(i) ==
    /\ req[i].pc = "realm_insert"
    /\ LET new == [id |-> req[i].loc.realmId, parent_id |-> req[i].loc.parentId,
                   path |-> <<>>, depth |-> 0]
           parentRows == {r \in realms : <<r.id>> = new.parent_id}
       IN  IF \/ new.id \in RealmIds
              \/ new.parent_id # <<>> /\ parentRows = {}
           THEN /\ realms' = realms
                /\ req' = [req EXCEPT ![i] = Respond(req[i], 500, "INTERNAL_ERROR", <<>>)]
           ELSE LET row == ComputeRealmPath(new, IF new.parent_id = <<>> THEN new
                                                 ELSE CHOOSE r \in parentRows : TRUE)
                IN  IF \E r \in realms : r.path = row.path
                    THEN /\ realms' = realms
                         /\ req' = [req EXCEPT ![i] = Respond(req[i], 500, "INTERNAL_ERROR", <<>>)]
                    ELSE /\ realms' = realms \cup {row}
                         /\ req' = [req EXCEPT ![i].pc = "realm_select"]
    /\ Finish(i)
    /\ UNCHANGED <<ENABLE_AUDIT_LOG, now, ticks, audit_log, lastHash, initialized, nops, overlap,
                   boots, tamper, evaluations, reputation_cache, attestations, verification_runs,
                   proofs>>

\* lines 30-32: the inserted row is read back, then logRealmCreated is called
RealmSelect(i) ==
    /\ req[i].pc = "realm_select"
    /\ LET r == [req[i] EXCEPT !.loc = @ @@ [realm |-> CHOOSE row \in realms : row.id = @.realmId]]
       IN  req' = [req EXCEPT ![i] = LogBegin(r, RealmLogArgs(r))]
    /\ Finish(i)
    /\ UNCHANGED <<ENABLE_AUDIT_LOG, now, ticks, audit_log, lastHash, initialized, nops, overlap,
                   boots, tamper, storeVars>>

\* the realms the schema seeds (crypto/index.ts, "Initial Data"); one stands for them
SeedRealms == {RootRealm("R")}

NoTamper == [kind |-> "none", k |-> 0, validBefore |-> TRUE]

\* the state after construction: empty tables, a new AuditLogManager
Constructed ==
    /\ ENABLE_AUDIT_LOG \in BOOLEAN
    /\ now = 0
    /\ ticks = 0
    /\ audit_log = <<>>
    /\ lastHash = Genesis
    /\ req = [i \in ReqIds |-> IdleReq]
    /\ nops = 0
    /\ overlap = FALSE
    /\ boots = 0
    /\ tamper = NoTamper
    /\ realms = SeedRealms
    /\ evaluations = <<>>
    /\ reputation_cache = {}
    /\ attestations = <<>>
    /\ verification_runs = <<>>
    /\ proofs = <<>>
    /\ history = <<>>

Init == Constructed /\ initialized = FALSE

\* index.ts, start(): auditLog.initialize() has run, over the empty log, before
\* app.listen; the routes are served from this state
InitServing == Constructed /\ initialized = TRUE

NextAudit ==
    \/ \E i \in ReqIds, a \in LogArgs : LogCall(i, a)
    \/ \E i \in ReqIds : LogInitQuery(i)
    \/ \E i \in ReqIds : LogInitResume(i)
    \/ \E i \in ReqIds : LogInsert(i)
    \/ \E i \in ReqIds : LogInsertResume(i)
    \/ Restart
    \/ Tick

SpecAudit == Init /\ [][NextAudit]_vars

(***************************************************************************)
(* Storage-level modification of one persisted audit event (the tamper     *)
(* scenario of the audit chain: somebody edits a row of audit_log).        *)
(***************************************************************************)
\* the payload values a row is changed to (values as the JSONB column holds them)
TamperPayloads ==
    {Jsonb(a.payload) : a \in LogArgs}
        \cup {<<<<"evaluation", <<<<"score", 0>>, <<"domain", "d1">>, <<"realmId", "R">>>>>>>>}

TamperPayload(k, p) ==
    /\ tamper.kind = "none"
    /\ Quiescent
    /\ k \in 1..Len(audit_log)
    /\ p # audit_log[k].payload
    /\ audit_log' = [audit_log EXCEPT ![k].payload = p]
    /\ tamper' = [kind |-> "payload", k |-> k, validBefore |-> VerifyChain(audit_log).valid]
    /\ UNCHANGED <<ENABLE_AUDIT_LOG, now, ticks, lastHash, initialized, req, nops, overlap,
                   boots, storeVars, history>>

TamperPreviousHash(k, h) ==
    /\ tamper.kind = "none"
    /\ Quiescent
    /\ k \in 2..Len(audit_log)
    /\ h # audit_log[k - 1].hash
    /\ h # audit_log[k].previous_hash
    /\ audit_log' = [audit_log EXCEPT ![k].previous_hash = h]
    /\ tamper' = [kind |-> "previousHash", k |-> k, validBefore |-> VerifyChain(audit_log).valid]
    /\ UNCHANGED <<ENABLE_AUDIT_LOG, now, ticks, lastHash, initialized, req, nops, overlap,
                   boots, storeVars, history>>

\* the chain is built by calls that do not overlap, then one row is changed
SerialLogCall(i, a) == Quiescent /\ LogCall(i, a)

NextTamper ==
    \/ \E i \in ReqIds, a \in LogArgs : SerialLogCall(i, a)
    \/ \E i \in ReqIds : LogInitQuery(i)
    \/ \E i \in ReqIds : LogInitResume(i)
    \/ \E i \in ReqIds : LogInsert(i)
    \/ \E i \in ReqIds : LogInsertResume(i)
    \/ \E k \in 1..MaxOps, p \in TamperPayloads : TamperPayload(k, p)
    \/ \E k \in 1..MaxOps, h \in {Genesis} \cup {audit_log[j].hash : j \in 1..Len(audit_log)} :
          TamperPreviousHash(k, h)
    \/ Tick

SpecTamper == Init /\ [][NextTamper]_vars

(***************************************************************************)
(* The trust routes: evaluation submissions and reputation reads, the       *)
(* auditLog.log calls they make, and the clock.                            *)
(***************************************************************************)
NextEval ==
    \/ \E i \in ReqIds, body \in EvalBodies : EvalSubmit(i, body)
    \/ \E i \in ReqIds : EvalRealm(i)
    \/ \E i \in ReqIds : EvalExisting(i)
    \/ \E i \in ReqIds : EvalUpdate(i)
    \/ \E i \in ReqIds : EvalUpdateSelect(i)
    \/ \E i \in ReqIds : EvalInsert(i)
    \/ \E i \in ReqIds : EvalInsertSelect(i)
    \/ \E i \in ReqIds : LogInsert(i)
    \/ \E i \in ReqIds : LogInsertResume(i)
    \/ \E i \in ReqIds : EvalCacheDelete(i)
    \/ \E i \in ReqIds, q \in RepQueries : RepRequest(i, q)
    \/ \E i \in ReqIds : RepCache(i)
    \/ \E i \in ReqIds : RepEvals(i)
    \/ \E i \in ReqIds : RepAtts(i)
    \/ \E i \in ReqIds : RepRealm(i)
    \/ \E i \in ReqIds : RepUpsert(i)
    \/ Tick

SpecEval == InitServing /\ [][NextEval]_vars

\* the same routes, each request sent after the response to the one before
SerialEvalSubmit(i, body) == Quiescent /\ EvalSubmit(i, body)

SerialRepRequest(i, q) == Quiescent /\ RepRequest(i, q)

NextEvalSerial ==
    \/ \E i \in ReqIds, body \in EvalBodies : SerialEvalSubmit(i, body)
    \/ \E i \in ReqIds : EvalRealm(i)
    \/ \E i \in ReqIds : EvalExisting(i)
    \/ \E i \in ReqIds : EvalUpdate(i)
    \/ \E i \in ReqIds : EvalUpdateSelect(i)
    \/ \E i \in ReqIds : EvalInsert(i)
    \/ \E i \in ReqIds : EvalInsertSelect(i)
    \/ \E i \in ReqIds : LogInsert(i)
    \/ \E i \in ReqIds : LogInsertResume(i)
    \/ \E i \in ReqIds : EvalCacheDelete(i)
    \/ \E i \in ReqIds, q \in RepQueries : SerialRepRequest(i, q)
    \/ \E i \in ReqIds : RepCache(i)
    \/ \E i \in ReqIds : RepEvals(i)
    \/ \E i \in ReqIds : RepAtts(i)
    \/ \E i \in ReqIds : RepRealm(i)
    \/ \E i \in ReqIds : RepUpsert(i)
    \/ Tick

SpecEvalSerial == InitServing /\ [][NextEvalSerial]_vars

\* between two requests the validity period of a cache row (line 110: five
\* minutes) goes by
CachePeriodPasses ==
    /\ Quiescent
    /\ ticks < MaxTicks
    /\ now' = now + CacheTtl
    /\ ticks' = ticks + 1
    /\ UNCHANGED <<ENABLE_AUDIT_LOG, audit_log, lastHash, initialized, req, nops, overlap, boots,
                   tamper, storeVars, history>>

\* the trust routes served one request after the other, over five minutes
NextCache == NextEvalSerial \/ CachePeriodPasses

SpecCache == InitServing /\ [][NextCache]_vars

(***************************************************************************)
(* The attestation routes: creation, verification and revocation, the      *)
(* auditLog.log calls they make, and the clock.  VerLoad answers every     *)
(* request for a stored attestation itself (the row has no property        *)
(* resolverId and no stored status is "verified"), so no request is ever   *)
(* suspended at the awaits of VerAfterLoad and no step of it can be taken. *)
(***************************************************************************)
AttIds == {attestations[k].id : k \in 1..Len(attestations)} \cup {NoSuchId}

NextAtt ==
    \/ \E i \in ReqIds, body \in AttBodies : AttSubmit(i, body)
    \/ \E i \in ReqIds : AttRealm(i)
    \/ \E i \in ReqIds : AttInsert(i)
    \/ \E i \in ReqIds : AttInsertSelect(i)
    \/ \E i \in ReqIds : LogInsert(i)
    \/ \E i \in ReqIds : LogInsertResume(i)
    \/ \E i \in ReqIds, id \in AttIds, force \in BOOLEAN : VerRequest(i, id, force)
    \/ \E i \in ReqIds : VerLoad(i)
    \/ \E i \in ReqIds, id \in AttIds : RevRequest(i, id)
    \/ \E i \in ReqIds : RevLoad(i)
    \/ \E i \in ReqIds : RevUpdate(i)
    \/ \E i \in ReqIds : RevSelect(i)
    \/ Tick

SpecAtt == InitServing /\ [][NextAtt]_vars

\* the same routes, each request sent after the response to the one before
SerialAttSubmit(i, body) == Quiescent /\ AttSubmit(i, body)

SerialVerRequest(i, id, force) == Quiescent /\ VerRequest(i, id, force)

SerialRevRequest(i, id) == Quiescent /\ RevRequest(i, id)

NextAttSerial ==
    \/ \E i \in ReqIds, body \in AttBodies : SerialAttSubmit(i, body)
    \/ \E i \in ReqIds : AttRealm(i)
    \/ \E i \in ReqIds : AttInsert(i)
    \/ \E i \in ReqIds : AttInsertSelect(i)
    \/ \E i \in ReqIds : LogInsert(i)
    \/ \E i \in ReqIds : LogInsertResume(i)
    \/ \E i \in ReqIds, id \in AttIds, force \in BOOLEAN : SerialVerRequest(i, id, force)
    \/ \E i \in ReqIds : VerLoad(i)
    \/ \E i \in ReqIds, id \in AttIds : SerialRevRequest(i, id)
    \/ \E i \in ReqIds : RevLoad(i)
    \/ \E i \in ReqIds : RevUpdate(i)
    \/ \E i \in ReqIds : RevSelect(i)
    \/ Tick

SpecAttSerial == InitServing /\ [][NextAttSerial]_vars

\* The attestation routes of an instance started with ENABLE_AUDIT_LOG=false,
\* under the scheduling Node gives: a handler whose awaited statement has
\* completed is resumed, and the clock advances.  Nothing obliges a client to
\* send a request.
InitAuditOff == InitServing /\ ~ENABLE_AUDIT_LOG

NextExpiry ==
    \/ \E i \in ReqIds, body \in AttBodies : SerialAttSubmit(i, body)
    \/ \E i \in ReqIds : AttRealm(i)
    \/ \E i \in ReqIds : AttInsert(i)
    \/ \E i \in ReqIds : AttInsertSelect(i)
    \/ \E i \in ReqIds, id \in AttIds, force \in BOOLEAN : SerialVerRequest(i, id, force)
    \/ \E i \in ReqIds : VerLoad(i)
    \/ \E i \in ReqIds, id \in AttIds : SerialRevRequest(i, id)
    \/ \E i \in ReqIds : RevLoad(i)
    \/ \E i \in ReqIds : RevUpdate(i)
    \/ \E i \in ReqIds : RevSelect(i)
    \/ Tick

HandlerSteps ==
    \E i \in ReqIds :
        \/ AttRealm(i) \/ AttInsert(i) \/ AttInsertSelect(i)
        \/ VerLoad(i)
        \/ RevLoad(i) \/ RevUpdate(i) \/ RevSelect(i)

SpecExpiry ==
    InitAuditOff /\ [][NextExpiry]_vars /\ WF_vars(HandlerSteps) /\ WF_vars(Tick)

(***************************************************************************)
(* The transitive route over a stored evaluation table.  The handler only  *)
(* reads: the table is an input, drawn from GraphTables.                   *)
(***************************************************************************)
InitGraph ==
    /\ ENABLE_AUDIT_LOG \in BOOLEAN
    /\ now = 0
    /\ ticks = 0
    /\ audit_log = <<>>
    /\ lastHash = Genesis
    /\ initialized = TRUE
    /\ req = [i \in ReqIds |-> IdleReq]
    /\ nops = 0
    /\ overlap = FALSE
    /\ boots = 0
    /\ tamper = NoTamper
    /\ evaluations \in GraphTables
    /\ realms = {RootRealm(id) : id \in GraphRealms \cup {evaluations[k].realm_id : k \in 1..Len(evaluations)}}
    /\ reputation_cache = {}
    /\ attestations = <<>>
    /\ verification_runs = <<>>
    /\ proofs = <<>>
    /\ history = <<>>

NextGraph ==
    \/ \E i \in ReqIds, q \in TransQueries : TransRequest(i, q)
    \/ \E i \in ReqIds : TransSelect(i)

SpecGraph == InitGraph /\ [][NextGraph]_vars

\* computeReputationWithDecay as a function: six days after the first evaluation
\* the function is called with drawn inputs and configs
InitRep ==
    /\ ENABLE_AUDIT_LOG = TRUE
    /\ now = 6 * DayMs
    /\ ticks = 0
    /\ audit_log = <<>>
    /\ lastHash = Genesis
    /\ initialized = TRUE
    /\ req = [i \in ReqIds |-> IdleReq]
    /\ nops = 0
    /\ overlap = FALSE
    /\ boots = 0
    /\ tamper = NoTamper
    /\ realms = SeedRealms
    /\ evaluations = <<>>
    /\ reputation_cache = {}
    /\ attestations = <<>>
    /\ verification_runs = <<>>
    /\ proofs = <<>>
    /\ history = <<>>

NextRep == \E input \in RepInputs, config \in RepConfigs : RepCall(1, input, config)

SpecRep == InitRep /\ [][NextRep]_vars

\* the Merkle functions as functions: called with drawn leaf lists and indices,
\* the indices -1 and Len(leaves) included
NextMerkle ==
    \E leaves \in LeafLists : \E idx \in (0 - 1)..Len(leaves) : MerkleCall(1, leaves, idx)

SpecMerkle == InitServing /\ [][NextMerkle]_vars

(***************************************************************************)
(* The proof routes, served one request at a time with the audit log       *)
(* disabled, from the state the trust routes leave behind once evaluations *)
(* of the subject were submitted (by A, or by A and B in either order, all *)
(* in the first millisecond) and its reputation was read.  Further         *)
(* evaluations are submitted and the reputation is read between the proof  *)
(* requests.                                                               *)
(***************************************************************************)
\* the row POST /trust/evaluations stored for a body at ts = now
StoredEval(body) ==
    LET f == EvalFields(body)
    IN  EvalRow(f @@ [evalId |-> EvalContentId(f, now), signature |-> EvalSignature(f, now)])

\* the evaluations table: the submission of A alone, of A then B, of B then A
ProofTables ==
    LET a == StoredEval(<<<<"from", "A">>, <<"to", "S">>, <<"realmId", "R">>, <<"domain", "d1">>,
                          <<"score", 80>>>>)
        b == StoredEval(<<<<"from", "B">>, <<"to", "S">>, <<"realmId", "R">>, <<"domain", "d1">>,
                          <<"score", 60>>, <<"weight", 500>>>>)
    IN  {<<a>>, <<a, b>>, <<b, a>>}

\* the cache row GET /trust/reputation/S left behind for these evaluations
StoredCache(evals) ==
    LET q == [subject |-> "S", realm |-> "R", domain |-> "d1", refresh |-> "false"]
    IN  CacheRow([inp |-> q,
                  loc |-> [evals |-> evals, atts |-> <<>>,
                           result |-> ComputeReputation(evals, <<>>),
                           cacheId |-> CacheContentId(q, now), validUntil |-> now + CacheTtl]],
                 {})

InitProof ==
    /\ ENABLE_AUDIT_LOG = FALSE
    /\ now = 0
    /\ ticks = 0
    /\ audit_log = <<>>
    /\ lastHash = Genesis
    /\ initialized = TRUE
    /\ req = [i \in ReqIds |-> IdleReq]
    /\ nops = 0
    /\ overlap = FALSE
    /\ boots = 0
    /\ tamper = NoTamper
    /\ realms = SeedRealms
    /\ evaluations \in ProofTables
    /\ reputation_cache = {StoredCache(evaluations)}
    /\ attestations = <<>>
    /\ verification_runs = <<>>
    /\ proofs = <<>>
    /\ history = <<>>

SerialProofGenerate(i, body) == Quiescent /\ ProofGenerate(i, body)

SerialEvidenceProof(i, body) == Quiescent /\ EvidenceProof(i, body)

NextProof ==
    \/ \E i \in ReqIds, body \in GenBodies : SerialProofGenerate(i, body)
    \/ \E i \in ReqIds : GenReputation(i)
    \/ \E i \in ReqIds : GenAttestations(i)
    \/ \E i \in ReqIds : GenEvaluations(i)
    \/ \E i \in ReqIds : GenInsert(i)
    \/ \E i \in ReqIds : \E body \in EvidenceBodies : SerialEvidenceProof(i, body)
    \/ \E i \in ReqIds : EvpProof(i)
    \/ \E i \in ReqIds : EvpAttestations(i)
    \/ \E i \in ReqIds : EvpEvaluations(i)
    \/ \E i \in ReqIds, body \in EvalBodies : SerialEvalSubmit(i, body)
    \/ \E i \in ReqIds : EvalRealm(i)
    \/ \E i \in ReqIds : EvalExisting(i)
    \/ \E i \in ReqIds : EvalUpdate(i)
    \/ \E i \in ReqIds : EvalUpdateSelect(i)
    \/ \E i \in ReqIds : EvalInsert(i)
    \/ \E i \in ReqIds : EvalInsertSelect(i)
    \/ \E i \in ReqIds : EvalCacheDelete(i)
    \/ \E i \in ReqIds, q \in RepQueries : SerialRepRequest(i, q)
    \/ \E i \in ReqIds : RepCache(i)
    \/ \E i \in ReqIds : RepEvals(i)
    \/ \E i \in ReqIds : RepAtts(i)
    \/ \E i \in ReqIds : RepRealm(i)
    \/ \E i \in ReqIds : RepUpsert(i)
    \/ Tick

SpecProof == InitProof /\ [][NextProof]_vars

\* the longest validity of a proof of GenBodies (validForDays = 7 by default,
\* line 32) and a second go by
ValidityPasses ==
    /\ ticks < MaxTicks
    /\ now' = now + 7 * DayMs + 1000
    /\ ticks' = ticks + 1
    /\ UNCHANGED <<ENABLE_AUDIT_LOG, audit_log, lastHash, initialized, req, nops, overlap, boots,
                   tamper, storeVars, history>>

\* proofs are generated one after the other and sent to /verify as issued,
\* altered, signed again or forged, before and after their validity
NextVerify ==
    \/ \E i \in ReqIds, body \in GenBodies : SerialProofGenerate(i, body)
    \/ \E i \in ReqIds : GenReputation(i)
    \/ \E i \in ReqIds : GenAttestations(i)
    \/ \E i \in ReqIds : GenEvaluations(i)
    \/ \E i \in ReqIds : GenInsert(i)
    \/ \E i \in ReqIds, body \in VerifyBodies : ProofVerify(i, body)
    \/ Tick
    \/ ValidityPasses

SpecVerify == InitProof /\ [][NextVerify]_vars

\* two of the realms the schema seeds: 'ai' and its child 'ai-agents'; the
\* process runs with ENABLE_AUDIT_LOG=false
RealmSeeds ==
    {RootRealm("ai"),
     [id |-> "ai-agents", parent_id |-> <<"ai">>, path |-> <<"ai", "ai-agents">>, depth |-> 1]}

InitRealm ==
    /\ ENABLE_AUDIT_LOG = FALSE
    /\ now = 0
    /\ ticks = 0
    /\ audit_log = <<>>
    /\ lastHash = Genesis
    /\ initialized = TRUE
    /\ req = [i \in ReqIds |-> IdleReq]
    /\ nops = 0
    /\ overlap = FALSE
    /\ boots = 0
    /\ tamper = NoTamper
    /\ realms = RealmSeeds
    /\ evaluations = <<>>
    /\ reputation_cache = {}
    /\ attestations = <<>>
    /\ verification_runs = <<>>
    /\ proofs = <<>>
    /\ history = <<>>

NextRealm ==
    \/ \E i \in ReqIds, body \in RealmBodies : RealmCreate(i, body)
    \/ \E i \in ReqIds : RealmParent(i)
    \/ \E i \in ReqIds : RealmInsert(i)
    \/ \E i \in ReqIds : RealmSelect(i)
    \/ Tick

SpecRealm == InitRealm /\ [][NextRealm]_vars

(***************************************************************************)
(* auditLog.log with logging disabled.  The process starts with            *)
(* ENABLE_AUDIT_LOG = false over the chain an earlier run, with logging    *)
(* enabled, has stored: no event, one, or two.  Callers invoke log, the    *)
(* clock advances, the process is restarted.                               *)
(***************************************************************************)
\* the chain log() stored for the calls `calls`, made in the first millisecond
RECURSIVE StoredChainOf(_)
StoredChainOf(calls) ==
    IF calls = <<>> THEN <<>>
    ELSE LET before == StoredChainOf(SubSeq(calls, 1, Len(calls) - 1))
             a == calls[Len(calls)]
             previousHash == IF before = <<>> THEN Genesis ELSE before[Len(before)].hash
         IN  Append(before, AuditRow(Content(a.type, a.actor, a.entityIds, a.payload, 0,
                                             previousHash),
                                     Len(before) + 1))

StoredChains == {StoredChainOf(calls) : calls \in UNION {[1..n -> LogArgs] : n \in 0..MaxOps}}

InitDisabled ==
    /\ ENABLE_AUDIT_LOG = FALSE
    /\ now = 1
    /\ ticks = 0
    /\ audit_log \in StoredChains
    /\ lastHash = Genesis
    /\ initialized = FALSE
    /\ req = [i \in ReqIds |-> IdleReq]
    /\ nops = 0
    /\ overlap = FALSE
    /\ boots = 0
    /\ tamper = NoTamper
    /\ realms = SeedRealms
    /\ evaluations = <<>>
    /\ reputation_cache = {}
    /\ attestations = <<>>
    /\ verification_runs = <<>>
    /\ proofs = <<>>
    /\ history = <<>>

NextDisabled ==
    \/ \E i \in ReqIds, a \in LogArgs : LogCall(i, a)
    \/ Restart
    \/ Tick

SpecDisabled == InitDisabled /\ [][NextDisabled]_vars

(***************************************************************************)
(* auditLog.log with a storage that may reject an INSERT.  The process     *)
(* starts with logging enabled over a stored chain; the calls do not       *)
(* overlap, the process may be restarted and the clock advances.           *)
(***************************************************************************)
InitAppendFail ==
    /\ ENABLE_AUDIT_LOG = TRUE
    /\ now = 1
    /\ ticks = 0
    /\ audit_log \in StoredChains
    /\ lastHash = Genesis
    /\ initialized = FALSE
    /\ req = [i \in ReqIds |-> IdleReq]
    /\ nops = 0
    /\ overlap = FALSE
    /\ boots = 0
    /\ tamper = NoTamper
    /\ realms = SeedRealms
    /\ evaluations = <<>>
    /\ reputation_cache = {}
    /\ attestations = <<>>
    /\ verification_runs = <<>>
    /\ proofs = <<>>
    /\ history = <<>>

NextAppendFail ==
    \/ \E i \in ReqIds, a \in LogArgs : SerialLogCall(i, a)
    \/ \E i \in ReqIds : LogInitQuery(i)
    \/ \E i \in ReqIds : LogInitResume(i)
    \/ \E i \in ReqIds : LogInsert(i)
    \/ \E i \in ReqIds : LogInsertFail(i)
    \/ \E i \in ReqIds : LogInsertResume(i)
    \/ Restart
    \/ Tick

SpecAppendFail == InitAppendFail /\ [][NextAppendFail]_vars



(***************************************************************************)
(* Audit chain: claims C1 - C4                                             *)
(***************************************************************************)
\* every event's previousHash is the hash of the event stored right before it
Linked(events) ==
    \A k \in 2..Len(events) : events[k].previous_hash = events[k - 1].hash

\* no two events carry the same previousHash
NoFork(events) ==
    \A j, k \in 1..Len(events) : j # k => events[j].previous_hash # events[k].previous_hash

\* C1: with audit logging enabled and starting from an empty log, after any
\* sequence of log() calls each of which completes before the next starts,
\* verifyChain() returns valid = true and checkedEvents = number of stored events.
C1_SerialAppendsVerify ==
    (ENABLE_AUDIT_LOG /\ ~overlap /\ Quiescent)
        => VerifyChain(audit_log) = [valid |-> TRUE, checkedEvents |-> Len(audit_log)]

\* C2: for every interleaving of overlapping log() calls the persisted events
\* form one totally ordered chain: no two events carry the same previousHash and
\* each event's previousHash is the hash of the event persisted right before it.
C2_ConcurrentAppendsOneChain ==
    ENABLE_AUDIT_LOG => (Linked(audit_log) /\ NoFork(audit_log))

\* C3: in an otherwise valid chain, changing the payload of the event at 0-based
\* position k makes verifyChain() return valid = false with checkedEvents = k, and
\* a non-first event whose stored previousHash differs from the preceding event's
\* hash makes it return valid = false.
C3_TamperDetected ==
    /\ (tamper.kind = "payload" /\ tamper.validBefore)
          => VerifyChain(audit_log) = [valid |-> FALSE, checkedEvents |-> tamper.k - 1]
    /\ (tamper.kind = "previousHash")
          => (~VerifyChain(audit_log).valid /\ VerifyChain(audit_log).checkedEvents < tamper.k)

C3_Witness ==
    /\ tamper.kind = "payload"
    /\ tamper.validBefore
    /\ tamper.k = 2
    /\ Len(audit_log) = 2

\* C4: the first event appended to an empty log has previousHash = "genesis", and
\* the first event a freshly constructed AuditLogManager appends over a non-empty
\* log has previousHash = hash of the last persisted event (calls not overlapping).
C4_AnchoredAndContinuous ==
    (ENABLE_AUDIT_LOG /\ ~overlap)
        => /\ Len(audit_log) >= 1 => audit_log[1].previous_hash = Genesis
           /\ Linked(audit_log)
           /\ \A i \in ReqIds :
                (req[i].kind = "log" /\ req[i].pc = "done" /\ req[i].resp.code = "returned")
                    => \E k \in 1..Len(audit_log) :
                          /\ audit_log[k].hash = req[i].resp.event.hash
                          /\ audit_log[k].previous_hash = req[i].resp.event.previousHash
                          /\ req[i].resp.event.previousHash =
                                (IF k = 1 THEN Genesis ELSE audit_log[k - 1].hash)
                          /\ req[i].log.last # Null => req[i].log.last = audit_log[k - 1].hash

\* a restarted process whose first log() call read the tail of the stored chain
\* and appended the next event
C4_Witness ==
    /\ ENABLE_AUDIT_LOG /\ ~overlap /\ boots = 1
    /\ Len(audit_log) = 2
    /\ \E i \in ReqIds :
          /\ req[i].kind = "log" /\ req[i].pc = "done" /\ req[i].resp.code = "returned"
          /\ req[i].log.last = audit_log[1].hash
          /\ req[i].resp.event.previousHash = audit_log[1].hash

(***************************************************************************)
(* Evaluations and the reputation cache: claims C5 - C8                    *)
(***************************************************************************)
\* the submissions that were answered 201 (inserted) or 200 (updated), in order
OkEvals == SelectSeq(history, LAMBDA h : h.kind = "eval" /\ h.resp.code \in {200, 201})

\* two submissions name the same (from, to, realmId, domain)
SameTuple(f, g) ==
    f.from = g.from /\ f.to = g.to /\ f.realmId = g.realmId /\ f.domain = g.domain

\* the successful submissions for the edge of submission h, in order
OkEvalsFor(h) == SelectSeq(OkEvals, LAMBDA g : SameTuple(g.loc, h.loc))

\* the stored rows of the edge of submission h
RowsFor(h) == SelectSeq(evaluations, LAMBDA row : SameEdge(row, h.loc))

\* the stored evaluations a cache row stands for
RowsOfKey(c) ==
    SelectSeq(evaluations, LAMBDA e : /\ e.to_entity_id = c.subject_id
                                      /\ e.realm_id = c.realm_id /\ e.domain = c.domain)

\* two recorded requests overlapped: one started while the other was in flight
Overlapped(g, h) == g.n \in h.with \/ h.n \in g.with

\* C5 as stated: after N >= 1 successive successful submissions for one
\* (from, to, realmId, domain) exactly one row exists for it, the row has the id
\* the first submission assigned, and its score and weight are those of the last.
C5_OneRowFirstIdLastValues ==
    Quiescent =>
        \A a \in 1..Len(OkEvals) :
            LET subs == OkEvalsFor(OkEvals[a])
                rows == RowsFor(OkEvals[a])
            IN  /\ Len(rows) = 1
                /\ rows[1].id = subs[1].loc.evalId
                /\ rows[1].score = subs[Len(subs)].loc.score
                /\ rows[1].weight = subs[Len(subs)].loc.weight

\* C5 as amended: ... its score is that of the last submission and its weight is
\* the weight of the last submission rounded to two decimals (NUMERIC(3,2)).
C5_OneRowFirstIdLastValuesRounded ==
    Quiescent =>
        \A a \in 1..Len(OkEvals) :
            LET subs == OkEvalsFor(OkEvals[a])
                rows == RowsFor(OkEvals[a])
                last == subs[Len(subs)].loc
            IN  /\ Len(rows) = 1
                /\ rows[1].id = subs[1].loc.evalId
                /\ rows[1].score = last.score
                /\ rows[1].weight % 10 = 0
                /\ rows[1].weight - last.weight \in -4..5

\* a second submission for an edge, with another score and a weight of three
\* decimals, has updated the row the first one inserted
C5_Witness ==
    /\ Quiescent
    /\ \E a, b \in 1..Len(OkEvals) :
          /\ a < b
          /\ OkEvals[a].resp.code = 201 /\ OkEvals[b].resp.code = 200
          /\ SameTuple(OkEvals[a].loc, OkEvals[b].loc)
          /\ OkEvals[a].loc.score # OkEvals[b].loc.score
          /\ OkEvals[b].loc.weight = 555
          /\ RowsFor(OkEvals[b])[1].weight = 560
          /\ RowsFor(OkEvals[b])[1].score = OkEvals[b].loc.score

\* C6: every successful evaluation write, insert or update, appends one
\* evaluation.created audit event and removes the cache rows of (to, realmId), so
\* that no cache row computed before the write is served after it: with the
\* requests sent one after the other, there is one event per write and every
\* cache row was computed from the evaluations as they are stored now.
C6_EveryWriteLogsAndInvalidates ==
    Quiescent =>
        /\ ENABLE_AUDIT_LOG =>
              Len(SelectSeq(audit_log, LAMBDA e : e.event_type = "evaluation.created"))
                  = Len(OkEvals)
        /\ \A c \in reputation_cache : c.basis = RowsOfKey(c)

\* C7: once an evaluation submission for S in R and a reputation read for
\* (S, R, d) have both completed, in any interleaving, the cache holds no row for
\* (S, R, d) computed from an evaluation set that lacks a stored evaluation.
C7_NoCacheRowLacksAnEvaluation ==
    Quiescent =>
        \A c \in reputation_cache :
            \A k \in 1..Len(RowsOfKey(c)) :
                \E b \in 1..Len(c.basis) : c.basis[b].id = RowsOfKey(c)[k].id

\* C8: two overlapping submissions for the same (from, to, realmId, domain), for
\* which no row existed before, both succeed, one as the insert (201) and the
\* other as the update (200), and exactly one row remains.
C8_OverlappingFirstSubmissionsBothSucceed ==
    \A a, b \in 1..Len(history) :
        LET g == history[a]
            h == history[b]
        IN  (/\ a < b
             /\ g.kind = "eval" /\ h.kind = "eval"
             /\ g.resp.code # 400 /\ h.resp.code # 400
             /\ SameTuple(g.loc, h.loc)
             /\ g.loc.fresh /\ h.loc.fresh
             /\ Overlapped(g, h))
            => /\ {g.resp.code, h.resp.code} = {200, 201}
               /\ Len(RowsFor(h)) = 1

(***************************************************************************)
(* Attestations: claims C9 - C10                                           *)
(***************************************************************************)
\* the audit events of one type about one entity
EventsOf(type, id) ==
    SelectSeq(audit_log, LAMBDA e : e.event_type = type /\ e.entity_ids = <<id>>)

\* the codes of the rejections C9 names
CreateRejections == {"INVALID_REALM", "INVALID_RESOLVER", "INVALID_EVIDENCE"}

\* a create request answered 201 returned the stored row, with status pending
CreatedPending(h) ==
    /\ Len(h.resp.data) = 1
    /\ h.resp.data[1].id = h.loc.attId
    /\ h.resp.data[1].status = "pending"
    /\ \E k \in 1..Len(attestations) : attestations[k].id = h.loc.attId

\* the request answered last was a rejected create and nothing was written since
\* it arrived
LastRejectedLeftUnchanged ==
    (Quiescent /\ Len(history) > 0)
        => LET h == history[Len(history)]
           IN  (h.kind = "att" /\ h.resp.error \in CreateRejections)
                  => /\ attestations = h.loc.pre.attestations
                     /\ audit_log = h.loc.pre.audit_log

\* C9 as stated: a successful create persists the attestation with status pending
\* and appends an attestation.created audit event; a create rejected with
\* INVALID_REALM, INVALID_RESOLVER or INVALID_EVIDENCE leaves the attestation
\* store and the audit log unchanged.
C9_CreatePersistsAndLogs ==
    /\ \A a \in 1..Len(history) :
          (history[a].kind = "att" /\ history[a].resp.code = 201)
              => /\ CreatedPending(history[a])
                 /\ Len(EventsOf("attestation.created", history[a].loc.attId)) = 1
    /\ LastRejectedLeftUnchanged

\* C9 as amended: ... and, when audit logging is enabled, appends an
\* attestation.created audit event; the rejections as stated.
C9_CreatePersistsAndLogsWhenEnabled ==
    /\ \A a \in 1..Len(history) :
          (history[a].kind = "att" /\ history[a].resp.code = 201)
              => /\ CreatedPending(history[a])
                 /\ ENABLE_AUDIT_LOG
                       => Len(EventsOf("attestation.created", history[a].loc.attId)) = 1
    /\ LastRejectedLeftUnchanged

\* with audit logging enabled, a create was answered 201 and a later create was
\* rejected for its evidence
C9_Witness ==
    /\ ENABLE_AUDIT_LOG /\ Quiescent
    /\ Len(history) = 2
    /\ history[1].kind = "att" /\ history[1].resp.code = 201
    /\ Len(EventsOf("attestation.created", history[1].loc.attId)) = 1
    /\ history[2].kind = "att" /\ history[2].resp.error = "INVALID_EVIDENCE"
    /\ Len(attestations) = 1

\* C10: a verify request for a stored attestation with a registered resolver,
\* forced or on an attestation that is not verified, dispatches to the resolver
\* and is answered with the new run: one VerificationRun with the result status
\* is stored, the attestation status follows verified->verified, failed->failed,
\* error->pending, verificationCount is one more than it was, and, with audit
\* logging enabled, one attestation.verified event is appended.
C10_VerifyRunsAndRecords ==
    \A a \in 1..Len(history) :
        LET h == history[a]
        IN  (/\ h.kind = "ver"
             /\ h.resp.code # 404
             /\ Registered(h.loc.att.resolver_id)
             /\ (h.inp.force \/ h.loc.att.status # "verified"))
            => /\ h.resp.code = 200
               /\ Len(SelectSeq(verification_runs, LAMBDA v : v.id = h.loc.verId)) = 1
               /\ h.resp.data[1].status = NewStatus(h.loc.result.status)
               /\ h.resp.data[1].verification_count = h.loc.att.verification_count + 1
               /\ ENABLE_AUDIT_LOG
                     => Len(EventsOf("attestation.verified", h.inp.attestationId)) >= 1

(***************************************************************************)
(* Revocation, expiry and the fields of a stored attestation.              *)
(***************************************************************************)
\* the verification runs stored for an attestation
RunsOf(id) == SelectSeq(verification_runs, LAMBDA run : run.attestation_id = id)

\* the statuses from which no verification may start
Terminal == {"revoked", "expired"}

\* request i is handed to a resolver in this step
Dispatches(i, id) ==
    /\ req[i].kind = "ver" /\ req[i].pc = "ver_load"
    /\ req[i].inp.attestationId = id
    /\ req'[i].pc = "ver_resolve"

\* C11: once an attestation is revoked or expired, no step hands a verify
\* request for it to a resolver, adds a verification run for it, or changes its
\* status, whether the request is forced or not.
C11_RevokedExpiredTerminal ==
    [][\A k \in 1..Len(attestations) :
          attestations[k].status \in Terminal =>
             /\ Len(attestations') >= k
             /\ attestations'[k].status = attestations[k].status
             /\ RunsOf(attestations[k].id)' = RunsOf(attestations[k].id)
             /\ \A i \in ReqIds : ~Dispatches(i, attestations[k].id)]_vars

\* a forced verify request was answered for an attestation revoked before the
\* request arrived; the attestation is still revoked and has no run
C11_Witness ==
    \E k \in 1..Len(attestations), g, h \in 1..Len(history) :
        /\ history[g].kind = "rev" /\ history[g].resp.code = 200
        /\ history[g].inp.id = attestations[k].id
        /\ history[h].kind = "ver" /\ history[h].inp.force
        /\ history[h].inp.attestationId = attestations[k].id
        /\ history[g].n < history[h].n /\ history[g].n \notin history[h].with
        /\ attestations[k].status = "revoked"
        /\ Len(RunsOf(attestations[k].id)) = 0

\* C13: a revoke request answered with success leaves the attestation revoked
\* and, with audit logging enabled, one attestation.revoked event in the audit
\* log; a revoke request for an attestation already revoked is rejected with
\* ALREADY_REVOKED and changes neither the attestation store nor the audit log.
C13_RevokeSetsAndLogs ==
    /\ \A a \in 1..Len(history) :
          (history[a].kind = "rev" /\ history[a].resp.code = 200)
              => /\ \E k \in 1..Len(attestations) :
                       /\ attestations[k].id = history[a].inp.id
                       /\ attestations[k].status = "revoked"
                 /\ ENABLE_AUDIT_LOG
                       => Len(EventsOf("attestation.revoked", history[a].inp.id)) = 1
    /\ (Quiescent /\ Len(history) > 0)
          => LET h == history[Len(history)]
             IN  /\ (h.kind = "rev" /\ h.resp.error = "ALREADY_REVOKED")
                       => /\ attestations = h.loc.pre.attestations
                          /\ audit_log = h.loc.pre.audit_log
                 /\ (h.kind = "rev" /\ \E k \in 1..Len(h.loc.pre.attestations) :
                          /\ h.loc.pre.attestations[k].id = h.inp.id
                          /\ h.loc.pre.attestations[k].status = "revoked")
                       => h.resp.error = "ALREADY_REVOKED"

\* the k-th stored attestation has an expiry date and the clock is past it
PastExpiry(k) ==
    /\ Len(attestations) >= k
    /\ attestations[k].expires_at # Null
    /\ InstantOf(attestations[k].expires_at) < now

\* C14: an attestation whose expiresAt is earlier than the current time
\* eventually has the status expired, unless it is revoked.
C14_ExpiresEventually ==
    \A k \in 1..MaxAttOps :
        (PastExpiry(k) /\ attestations[k].status # "revoked")
            ~> (Len(attestations) >= k /\ attestations[k].status \in Terminal)

\* the columns the verify and revoke UPDATEs name
Mutable == {"status", "verification_count", "last_verified_at", "updated_at"}

\* C15: no step of a create, verify or revoke request removes a stored
\* attestation or changes any of its columns other than status,
\* verification_count, last_verified_at and updated_at: id, realm, attester,
\* subject, claim, resolver, evidence, references, signature, expiry and creation
\* time stay as the INSERT stored them.
C15_ContentImmutable ==
    [][\A k \in 1..Len(attestations) :
          /\ Len(attestations') >= k
          /\ \A f \in (DOMAIN attestations[k]) \ Mutable :
                attestations'[k][f] = attestations[k][f]]_vars

\* an attestation was created, a verify request for it was answered, and a
\* revoke request changed its status
C15_Witness ==
    \E k \in 1..Len(attestations), g, h \in 1..Len(history) :
        /\ history[h].kind = "ver" /\ history[h].inp.attestationId = attestations[k].id
        /\ history[g].kind = "rev" /\ history[g].inp.id = attestations[k].id
        /\ history[g].resp.code = 200
        /\ history[g].resp.data[1].status = "revoked"
        /\ history[g].resp.data[1].signature = attestations[k].signature
        /\ attestations[k].updated_at > attestations[k].created_at

(***************************************************************************)
(* Overlapping verify requests.                                            *)
(***************************************************************************)
\* an answered verify request that found the attestation stored and pending
VerifiedPending(h) ==
    /\ h.kind = "ver" /\ h.resp.code # 404
    /\ h.loc.att.status = "pending"

\* C16: after two overlapping verify requests for the same pending attestation
\* have both been answered, the attestation has runs, its status is the one
\* NewStatus gives for the run created last (unless it was revoked since), and
\* its verification_count is the number of runs written.
C16_LatestRunWins ==
    \A g, h \in 1..Len(history) :
        (/\ g # h
         /\ VerifiedPending(history[g]) /\ VerifiedPending(history[h])
         /\ history[g].inp.attestationId = history[h].inp.attestationId
         /\ Overlapped(history[g], history[h]))
            => \E k \in 1..Len(attestations) :
                  LET runs == RunsOf(attestations[k].id)
                  IN  /\ attestations[k].id = history[h].inp.attestationId
                      /\ Len(runs) > 0
                      /\ attestations[k].status \in {NewStatus(runs[Len(runs)].status), "revoked"}
                      /\ attestations[k].verification_count = Len(runs)

(***************************************************************************)
(* Transitive trust.                                                       *)
(***************************************************************************)
\* the edges from -> to of the queried domain in the graph an answered query loaded
DirectEdges(h) ==
    SelectSeq(h.loc.edges,
              LAMBDA e : e.from = h.loc.q.from /\ e.to = h.loc.q.to /\ e.domain = h.loc.q.domain)

\* the sum of the weights of edges, in thousandths
RECURSIVE TotalWeight(_)
TotalWeight(es) == IF es = <<>> THEN 0 ELSE es[1].weight + TotalWeight(Tail(es))

\* the weight-weighted mean of the scores of edges whose weights sum to more than 0
WeightedMean(es) == RDiv(SumScoreTimesWeight(es), Rat(TotalWeight(es), 1000))

\* C19: a transitive query whose graph holds edges from -> to of the domain (of a
\* positive total weight, so that their weighted mean exists) is answered with
\* that mean as score, confidence 1, the one path [from, to] with finalTrust =
\* score and decayApplied = 0, and pathsExplored = 1, without a search; a query
\* whose graph holds no such edge is answered by the search.
C19_DirectTrustShortCircuit ==
    \A a \in 1..Len(history) :
        (history[a].kind = "trans" /\ history[a].resp.code = 200)
            => LET es == DirectEdges(history[a])
                   q == history[a].loc.q
                   r == history[a].resp.data
               IN  /\ (Len(es) > 0 /\ TotalWeight(es) > 0)
                         => /\ ~r.searched
                            /\ r.score = WeightedMean(es)
                            /\ r.confidence = One
                            /\ r.paths = <<[path |-> <<q.from, q.to>>, scores |-> <<r.score>>,
                                            finalTrust |-> r.score, decayApplied |-> Zero]>>
                            /\ r.pathsExplored = 1
                   /\ Len(es) = 0 => r.searched

\* the product of a sequence of numbers, as the product of its two halves
RECURSIVE ProductOf(_)
ProductOf(xs) ==
    IF xs = <<>> THEN One
    ELSE IF Len(xs) = 1 THEN xs[1]
    ELSE RMul(ProductOf(SubSeq(xs, 1, Len(xs) \div 2)),
              ProductOf(SubSeq(xs, Len(xs) \div 2 + 1, Len(xs))))

\* p is a chain of edges of the graph from `from` to `to`, with their scores
ChainOf(p, edges, q) ==
    /\ Len(p.path) >= 2 /\ Len(p.scores) = Len(p.path) - 1
    /\ p.path[1] = q.from /\ p.path[Len(p.path)] = q.to
    /\ \A k \in 1..Len(p.scores) :
          \E n \in 1..Len(edges) :
             /\ edges[n].from = p.path[k] /\ edges[n].to = p.path[k + 1]
             /\ edges[n].domain = q.domain /\ edges[n].score = p.scores[k]

\* the graph A->B = 100, B->C = 100 and the query A to C with decayFactor 0.8
TwoHopExample(h) ==
    /\ h.kind = "trans" /\ h.resp.code = 200
    /\ Len(h.loc.edges) = 2
    /\ h.loc.edges[1].from = "A" /\ h.loc.edges[1].to = "B" /\ h.loc.edges[1].score = One
    /\ h.loc.edges[2].from = "B" /\ h.loc.edges[2].to = "C" /\ h.loc.edges[2].score = One
    /\ h.loc.q.from = "A" /\ h.loc.q.to = "C" /\ h.loc.q.decayFactor = Rat(4, 5)
    /\ h.loc.q.maxDepth = DefaultMaxDepth /\ h.loc.q.minConfidence = DefaultMinConfidence

\* the answer C20 names for the example
TwoHopAnswer(r) ==
    /\ Len(r.paths) = 1
    /\ r.paths[1].path = <<"A", "B", "C">>
    /\ r.paths[1].finalTrust = Rat(64, 100)
    /\ r.score = Rat(64, 100)
    /\ r.confidence = Rat(1, 3)

\* C20: every path a transitive search returns is a chain of d edges of the graph
\* whose finalTrust is trust * decayFactor^(d-1), with trust the product of the
\* edge scores times decayFactor^(d-1), and whose decayApplied is
\* 1 - decayFactor^(d-1); for A->B = 100, B->C = 100 and decayFactor 0.8 the query
\* A to C returns the single path [A,B,C], finalTrust 0.64, score 0.64 and
\* confidence 1/3.
C20_PathTrustWithDecay ==
    \A a \in 1..Len(history) :
        (history[a].kind = "trans" /\ history[a].resp.code = 200)
            => LET q == history[a].loc.q
                   r == history[a].resp.data
               IN  /\ r.searched
                         => \A k \in 1..Len(r.paths) :
                               LET p == r.paths[k]
                                   d == Len(p.path) - 1
                                   trust == RMul(ProductOf(p.scores), RPow(q.decayFactor, d - 1))
                               IN  /\ ChainOf(p, history[a].loc.edges, q)
                                   /\ p.finalTrust = RMul(trust, RPow(q.decayFactor, d - 1))
                                   /\ p.decayApplied = RSub(One, RPow(q.decayFactor, d - 1))
                   /\ TwoHopExample(history[a]) => TwoHopAnswer(r)

\* the example was asked and answered by the search, with the path [A,B,C] and
\* decayApplied 0.2
C20_Witness ==
    \E a \in 1..Len(history) :
        /\ TwoHopExample(history[a])
        /\ history[a].resp.data.searched
        /\ history[a].resp.data.bestPath.path = <<"A", "B", "C">>
        /\ history[a].resp.data.bestPath.decayApplied = Rat(1, 5)

(***************************************************************************)
(* Cycles, bounds and aggregation of the transitive search.                *)
(***************************************************************************)
\* no node occurs twice in path
NoRepeat(path) == \A m, n \in 1..Len(path) : m # n => path[m] # path[n]

\* node occurs in path
OnPath(path, node) == \E n \in 1..Len(path) : path[n] = node

\* C21: no path of a transitive-trust result contains a node twice; an entry of
\* the frontier is never extended to a node of its own path; and a query with
\* from = to over a graph without self-edge is answered with score 0, confidence
\* 0 and no paths.
C21_CyclePrevention ==
    \A a \in 1..Len(history) :
        (history[a].kind = "trans" /\ history[a].resp.code = 200)
            => LET q == history[a].loc.q
                   edges == history[a].loc.edges
                   r == history[a].resp.data
                   seeds == Seeds(edges, q)
               IN  /\ \A k \in 1..Len(r.paths) : NoRepeat(r.paths[k].path)
                   /\ \A s \in 1..Len(seeds) :
                         LET next == Expand(edges, q, seeds[s])
                         IN  \A e \in 1..Len(next) : ~OnPath(seeds[s].path, next[e].node)
                   /\ (q.from = q.to /\ \A n \in 1..Len(edges) : edges[n].from # edges[n].to)
                         => r.score = Zero /\ r.confidence = Zero /\ r.paths = <<>>

\* C22: computeTransitiveTrust terminates for every graph and query, and the
\* pathsExplored it returns is at most 5000, also when more than 5000 entries
\* are queued.
C22_BoundedExploration ==
    \A a \in 1..Len(history) :
        (history[a].kind = "trans" /\ history[a].resp.code = 200)
            => /\ history[a].resp.data.pathsExplored <= 5000
               /\ history[a].resp.data.pathsExplored >= 0

\* a query over more than 5000 edges that leave `from` was answered by the
\* search, which stopped at the cap with entries left in the queue
C22_Witness ==
    \E a \in 1..Len(history) :
        /\ history[a].kind = "trans" /\ history[a].resp.code = 200
        /\ Len(Seeds(history[a].loc.edges, history[a].loc.q)) > 5000
        /\ history[a].resp.data.searched
        /\ history[a].resp.data.pathsExplored = 5000

\* the paths the search of an answered query recorded, in the order of recording
Recorded(h) == Search(h.loc.edges, h.loc.q, Seeds(h.loc.edges, h.loc.q), {}, 0, <<>>).allPaths

\* the sum of x[i] * 0.5^i over the positions i = from..to of the list that
\* starts with x[0]
RECURSIVE HalvedSum(_, _, _)
HalvedSum(x, from, to) ==
    IF from > to THEN Zero
    ELSE RAdd(HalvedSum(x, from, to - 1), RDiv(x[to + 1].finalTrust, Rat(2 ^ to, 1)))

\* C23: when the search recorded n >= 1 paths, the result lists them in
\* non-increasing finalTrust order, bestPath has the maximal finalTrust of the
\* recorded paths, at most 10 paths are returned, score is
\* min(1, bestPath.finalTrust + sum over i = 1..min(4, n-1) of path[i].finalTrust * 0.5^i)
\* and lies in [0,1], and confidence is min(1, n/3); when no path was recorded,
\* score and confidence are 0.
C23_MultiPathAggregation ==
    \A a \in 1..Len(history) :
        (history[a].kind = "trans" /\ history[a].resp.code = 200 /\ history[a].resp.data.searched)
            => LET r == history[a].resp.data
                   rec == Recorded(history[a])
                   n == Len(rec)
                   sum == RAdd(r.bestPath.finalTrust,
                               HalvedSum(r.paths, 1, IF n - 1 < 4 THEN n - 1 ELSE 4))
               IN  /\ n = 0 => r.score = Zero /\ r.confidence = Zero
                   /\ n >= 1
                        => /\ \A k \in 1..(Len(r.paths) - 1) :
                                 ~RLess(r.paths[k].finalTrust, r.paths[k + 1].finalTrust)
                           /\ \E k \in 1..n : rec[k] = r.bestPath
                           /\ \A k \in 1..n : ~RLess(r.bestPath.finalTrust, rec[k].finalTrust)
                           /\ Len(r.paths) <= 10
                           /\ Len(r.paths) = (IF n < 10 THEN n ELSE 10)
                           /\ \A k \in 1..Len(r.paths) : \E m \in 1..n : rec[m] = r.paths[k]
                           /\ r.score = (IF RLess(One, sum) THEN One ELSE sum)
                           /\ ~RLess(One, r.score) /\ ~RLess(r.score, Zero)
                           /\ r.confidence = (IF n >= 3 THEN One ELSE Rat(n, 3))

\* a search recorded more than 10 paths out of the order of their trust, whose
\* damped sum exceeds 1
C23_Witness ==
    \E a \in 1..Len(history) :
        /\ history[a].kind = "trans" /\ history[a].resp.code = 200
        /\ history[a].resp.data.searched
        /\ Len(Recorded(history[a])) > 10
        /\ RLess(Recorded(history[a])[1].finalTrust, Recorded(history[a])[2].finalTrust)
        /\ RLess(One, RAdd(history[a].resp.data.paths[1].finalTrust,
                           HalvedSum(history[a].resp.data.paths, 1, 4)))

\* the graphs that hold the edges of a graph, loaded in any order
Reordered(edges) ==
    { [k \in 1..Len(edges) |-> edges[p[k]]] : p \in Permutations(1..Len(edges)) }

\* the edges of a graph, their order apart
EdgeSet(edges) == {edges[k] : k \in 1..Len(edges)}

\* two results agree in score, confidence and paths
SameAnswer(r, t) == r.score = t.score /\ r.confidence = t.confidence /\ r.paths = t.paths

\* C24: two transitive queries with the same from, to, domain, realmId, maxDepth,
\* decayFactor and minConfidence over the same stored evaluations return the same
\* score, confidence and paths, and the result of a query is the same in
\* whatever order its evaluations are loaded into the graph.
C24_TransitiveIdempotence ==
    /\ \A a, b \in 1..Len(history) :
          ( /\ history[a].kind = "trans" /\ history[a].resp.code = 200
            /\ history[b].kind = "trans" /\ history[b].resp.code = 200
            /\ history[a].inp = history[b].inp
            /\ EdgeSet(history[a].loc.edges) = EdgeSet(history[b].loc.edges) )
              => SameAnswer(history[a].resp.data, history[b].resp.data)
    /\ \A a \in 1..Len(history) :
          ( /\ history[a].kind = "trans" /\ history[a].resp.code = 200
            /\ Len(history[a].loc.edges) <= MaxEdges )
              => \A edges \in Reordered(history[a].loc.edges) :
                    SameAnswer(history[a].resp.data,
                               ComputeTransitiveTrust(edges, history[a].loc.q))

(***************************************************************************)
(* Reputation with decay.                                                  *)
(***************************************************************************)
\* the calls of computeReputationWithDecay that returned
RepCalls == {a \in 1..Len(history) : history[a].kind = "repcall"}

\* the decayed-weight mean of the scores of a call, or 50 without weight
RawScore(h) ==
    LET w == DecayedTotal(h.inp.input.evaluations, h.inp.config, h.loc.at)
    IN  IF w = Zero THEN Rat(50, 1)
        ELSE RDiv(DecayedSum(h.inp.input.evaluations, h.inp.config, h.loc.at), w)

\* C25: for every input and every config with minScore <= maxScore, the score
\* computeReputationWithDecay returns is clamp(rawScore + attestationBonus -
\* decayPenalty, minScore, maxScore) rounded to one decimal and lies within
\* [minScore, maxScore]; rawScore is the decayed-weight mean of the scores, or 50
\* when the total weight is 0.
C25_ScoreClamped ==
    \A a \in RepCalls :
        LET h == history[a]
            c == h.inp.config
            r == h.resp.data
            up == RAdd(RawScore(h), AttestationBonus(h.inp.input))
            down == StalenessPenalty(DaysSince(h.inp.input.newestEvaluationDate, h.loc.at), c)
            clamped == IF RLess(up, RAdd(down, c.minScore)) THEN c.minScore
                       ELSE IF RLess(RAdd(down, c.maxScore), up) THEN c.maxScore
                       ELSE RSub(up, down)
        IN  ~RLess(c.maxScore, c.minScore)
               => /\ r.score = RoundTo(clamped, 10)
                  /\ ~RLess(r.score, c.minScore)
                  /\ ~RLess(c.maxScore, r.score)
                  /\ r.breakdown.rawScore = RoundTo(RawScore(h), 10)

\* stalenessDays of a call: the days since its newest evaluation
StaleDays(h) == DaysSince(h.inp.input.newestEvaluationDate, h.loc.at)

\* C26: for the same number of evaluations and the same halfLifeDays, the
\* confidence computeReputationWithDecay returns does not increase with
\* stalenessDays, and it never exceeds min(1, |evaluations| / 10).
C26_ConfidenceMonotone ==
    /\ \A a \in RepCalls :
          LET n == Len(history[a].inp.input.evaluations)
          IN  ~RLess(IF n >= 10 THEN One ELSE Rat(n, 10), history[a].resp.data.confidence)
    /\ \A a, b \in RepCalls :
          ( /\ Len(history[a].inp.input.evaluations) = Len(history[b].inp.input.evaluations)
            /\ history[a].inp.config.halfLifeDays = history[b].inp.config.halfLifeDays
            /\ StaleDays(history[a]) <= StaleDays(history[b]) )
              => ~RLess(history[a].resp.data.confidence, history[b].resp.data.confidence)

(***************************************************************************)
(* Merkle trees and proofs.                                                *)
(***************************************************************************)
\* C30: for every non-empty leaf list and every index i of it,
\* verifyMerkleProof(generateMerkleProof(leaves, i)) is true, the root of the
\* proof is getMerkleRoot(leaves) and its leaf is sha256(leaves[i]); for an index
\* outside the list generateMerkleProof returns null.
C30_MerkleRoundTrip ==
    \A i \in ReqIds :
        req[i].kind = "merkle"
            => LET leaves == req[i].inp.leaves
                   idx == req[i].inp.idx
                   r == req[i].resp.data
               IN  IF idx >= 0 /\ idx < Len(leaves)
                   THEN /\ r.proof # <<>>
                        /\ r.verified
                        /\ r.proof[1].root = r.root
                        /\ r.proof[1].leaf = "h(" \o leaves[idx + 1] \o ")"
                   ELSE r.proof = <<>>

\* the proof of the last of five leaves, two of them equal, was generated and
\* verified: the leaf is paired with itself on the first two levels and has a
\* left sibling on the third
C30_Witness ==
    \E i \in ReqIds :
        /\ req[i].kind = "merkle"
        /\ Len(req[i].inp.leaves) = 5 /\ req[i].inp.idx = 4
        /\ req[i].inp.leaves[1] = req[i].inp.leaves[2]
        /\ req[i].resp.data.verified
        /\ Len(req[i].resp.data.proof[1].siblings) = 3
        /\ req[i].resp.data.proof[1].siblings[1].hash = req[i].resp.data.proof[1].leaf
        /\ req[i].resp.data.proof[1].siblings[3].position = "left"

\* the evidence of a stored proof at its generation, by stored id ascending:
\* the verified attestation ids, then the evaluation ids
EvidenceAtGeneration(p) == OrderById(p.attestationIds) \o OrderById(p.evaluationIds)

\* C28: every generated proof commits to getMerkleRoot of the verified
\* attestation ids followed by the evaluation ids of its subject, each by stored
\* id ascending
C28_ProofCommitment ==
    \A k \in 1..Len(proofs) :
        proofs[k].evidence_merkle_root = GetMerkleRoot(EvidenceAtGeneration(proofs[k]))

\* the answered evidence-proof requests about a stored proof and an evidence id
\* that was in its evidence set at generation time
PostHocRequests ==
    {n \in 1..Len(history) :
        /\ history[n].kind = "evidence"
        /\ \E k \in 1..Len(proofs) :
              /\ proofs[k].id = history[n].inp.proofId
              /\ \E m \in 1..Len(EvidenceAtGeneration(proofs[k])) :
                    EvidenceAtGeneration(proofs[k])[m] = history[n].inp.evidenceId}

\* the stored proof a request names
ProofOf(h) == proofs[CHOOSE k \in 1..Len(proofs) : proofs[k].id = h.inp.proofId]

\* C29: an evidence-proof request about a stored proof and an evidence id of its
\* evidence set at generation, made at any later time, rebuilds the same ordered
\* leaf list and answers a Merkle proof with the committed root, valid = true
C29_PostHocInclusion ==
    \A n \in PostHocRequests :
        /\ history[n].resp.code = 200
        /\ history[n].resp.data.valid
        /\ history[n].loc.evidenceLeaves = EvidenceAtGeneration(ProofOf(history[n]))
        /\ history[n].resp.data.merkleProof.root = ProofOf(history[n]).evidence_merkle_root

\* C37: for a query with maxDepth >= 1, every path the search recorded and every
\* path of the result has at most maxDepth edges and maxDepth + 1 nodes
C37_DepthBound ==
    \A a \in 1..Len(history) :
        (history[a].kind = "trans" /\ history[a].resp.code = 200
         /\ history[a].loc.q.maxDepth >= 1)
            => LET r == history[a].resp.data
                   rec == IF r.searched THEN Recorded(history[a]) ELSE <<>>
                   all == rec \o r.paths \o <<r.bestPath>>
               IN  \A k \in 1..Len(all) :
                       /\ Len(all[k].scores) <= history[a].loc.q.maxDepth
                       /\ Len(all[k].path) <= history[a].loc.q.maxDepth + 1

\* a query with maxDepth = 2 was answered by the search over a graph that holds
\* the chain A->B->D->C of three edges and no shorter way from A to C: the
\* result has no path
C37_Witness ==
    \E a \in 1..Len(history) :
        /\ history[a].kind = "trans" /\ history[a].resp.code = 200
        /\ history[a].loc.q.maxDepth = 2 /\ history[a].loc.q.to = "C"
        /\ history[a].resp.data.searched
        /\ Len(history[a].loc.edges) = 3
        /\ \E x, y, z \in 1..Len(history[a].loc.edges) :
              LET e == history[a].loc.edges
              IN  /\ e[x].from = "A" /\ e[x].to = "B" /\ e[x].score = One
                  /\ e[y].from = "B" /\ e[y].to = "D"
                  /\ e[z].from = "D" /\ e[z].to = "C"
        /\ history[a].resp.data.paths = <<>>

\* the trust an entry of the queue has accumulated along its scores: the first
\* score, then score * decayFactor for every further hop (lines 50 and 75)
AccumulatedTrust(scores, decayFactor) ==
    RMul(ProductOf(scores), RPow(decayFactor, Len(scores) - 1))

\* C38: no path the transitive search recorded, and none it returned, has an
\* accumulated trust (parentTrust * edgeScore * decayFactor) below minConfidence
C38_ConfidencePruning ==
    \A a \in 1..Len(history) :
        (history[a].kind = "trans" /\ history[a].resp.code = 200 /\ history[a].resp.data.searched)
            => LET q == history[a].loc.q
                   all == Recorded(history[a]) \o history[a].resp.data.paths
               IN  \A k \in 1..Len(all) :
                       Len(all[k].scores) >= 2
                           => ~RLess(AccumulatedTrust(all[k].scores, q.decayFactor), q.minConfidence)

\* every call of log has returned, without an await, the event of its arguments
\* with previousHash = hash = "disabled"
DisabledEvents ==
    \A i \in ReqIds :
        req[i].kind = "log"
            => /\ req[i].pc = "done"
               /\ req[i].resp.code = "returned"
               /\ req[i].resp.event.previousHash = "disabled"
               /\ req[i].resp.event.hash = "disabled"
               /\ req[i].resp.event.type = req[i].inp.type
               /\ req[i].resp.event.actor = req[i].inp.actor
               /\ req[i].resp.event.entityIds = req[i].inp.entityIds
               /\ req[i].resp.event.payload = req[i].inp.payload
               /\ req[i].resp.event.timestamp <= now

\* C36: with ENABLE_AUDIT_LOG false, every append returns a well-formed event
\* with previousHash = hash = "disabled" without waiting for storage, and no
\* step changes the stored chain, lastHash (a restart sets it to "genesis", which
\* it is) or reads the chain tail
C36_DisabledAuditLog ==
    /\ [](~ENABLE_AUDIT_LOG => DisabledEvents /\ lastHash = Genesis /\ ~initialized)
    /\ [][~ENABLE_AUDIT_LOG => audit_log' = audit_log /\ lastHash' = lastHash]_vars

\* a call returned the disabled event while the stored chain holds two events
C36_Witness ==
    /\ ~ENABLE_AUDIT_LOG
    /\ Len(audit_log) = 2
    /\ \E i \in ReqIds : /\ req[i].kind = "log" /\ req[i].pc = "done"
                         /\ req[i].resp.event.hash = "disabled"

\* every stored event carries the hash of the event stored before it, the first
\* one "genesis"
StoredLinked ==
    \A k \in 1..Len(audit_log) :
        audit_log[k].previous_hash = (IF k = 1 THEN Genesis ELSE audit_log[k - 1].hash)

\* between calls, an initialized manager holds the hash of the last stored event
HeadIsTail ==
    (Quiescent /\ initialized)
        => lastHash = (IF audit_log = <<>> THEN Genesis ELSE audit_log[Len(audit_log)].hash)

\* the event of a call that raised is not stored
RaisedNotStored ==
    \A i \in ReqIds :
        (req[i].kind = "log" /\ req[i].pc = "done" /\ req[i].resp.code = "raised")
            => \A k \in 1..Len(audit_log) : audit_log[k].content_id # req[i].log.eventId

\* a chain of events whose payload reads back as it was written verifies
Verifies ==
    (Quiescent /\ \A k \in 1..Len(audit_log) : audit_log[k].event_type = "evaluation.created")
        => VerifyChain(audit_log) = [valid |-> TRUE, checkedEvents |-> Len(audit_log)]

\* the step in which a call raises
Raises ==
    \E i \in ReqIds : /\ req[i].pc = "log_insert_js"
                       /\ req'[i].pc = "done" /\ req'[i].resp.code = "raised"

\* C40: when the INSERT of an append fails, the call raises, no event is stored
\* and lastHash is unchanged; the next successful append carries the hash of the
\* last stored event, and verifyChain() stays valid
C40_FailedAppendKeepsHead ==
    /\ [](StoredLinked /\ HeadIsTail /\ RaisedNotStored /\ Verifies)
    /\ [][\A i \in ReqIds :
              (req[i].pc = "log_insert_js" /\ req[i].log.err /\ req'[i] # req[i])
                  => req'[i].pc = "done" /\ req'[i].resp.code = "raised"]_vars
    /\ [][Raises => lastHash' = lastHash /\ audit_log' = audit_log]_vars

\* the first call of this run failed at its INSERT and the second one succeeded:
\* two calls were made, one event was stored after the two of the earlier run,
\* it carries the hash of the second, and the last call returned it
C40_Witness ==
    /\ nops = 2 /\ Len(audit_log) = 3
    /\ audit_log[2].timestamp = 0 /\ audit_log[3].timestamp >= 1
    /\ audit_log[3].previous_hash = audit_log[2].hash
    /\ req[1].kind = "log" /\ req[1].pc = "done" /\ req[1].resp.code = "returned"
    /\ req[1].resp.event.hash = audit_log[3].hash
    /\ lastHash = audit_log[3].hash

(***************************************************************************)
(* GET /trust/reputation/:subject and the reputation cache                 *)
(***************************************************************************)
\* the cache rows of the key a reputation request names, in the cache `cache`
KeyRows(cache, q) ==
    {c \in cache : c.subject_id = q.subject /\ c.realm_id = q.realm /\ c.domain = q.domain}

\* the stored evaluations of the key a reputation request names
KeyEvals(evals, q) ==
    SelectSeq(evals, LAMBDA e : /\ e.to_entity_id = q.subject /\ e.realm_id = q.realm
                                 /\ e.domain = q.domain)

\* this step starts a reputation read in slot i
ReadStarts(i) == Free(i) /\ req'[i] # req[i] /\ req'[i].kind = "rep" /\ req'[i].n = nops + 1

\* this step answers the cache query of the read in slot i
CacheAnswered(i) == req[i].pc = "rep_cache" /\ req'[i] # req[i]

\* this step sends the response of a read in slot i that was not served from the cache
ReadRecomputed(i) ==
    /\ req[i].kind = "rep" /\ req[i].pc \notin {"idle", "done", "rep_cache"}
    /\ req'[i].pc = "done" /\ req'[i].resp.code = 200

\* a read is served from the cache exactly when a row of its key with
\* validUntil later than now exists; with refresh = true the cache is not asked
ServedFromCacheIff ==
    /\ \A i \in ReqIds : ReadStarts(i) /\ req'[i].inp.refresh = "true" => req'[i].pc # "rep_cache"
    /\ \A i \in ReqIds : ReadStarts(i) /\ req'[i].pc = "rep_evals" => req'[i].inp.refresh = "true"
    /\ \A i \in ReqIds :
         CacheAnswered(i) =>
           LET valid == {c \in KeyRows(reputation_cache, req[i].inp) : c.valid_until > now}
           IN  IF valid # {}
               THEN req'[i].pc = "done" /\ req'[i].resp.error = "cached" /\ req'[i].resp.data = valid
               ELSE req'[i].pc = "rep_evals"

\* after the response of the read in slot i the cache holds one row of its key:
\* the reputation of the stored evaluations, valid for five minutes from the
\* time of the computation
RowReplaced(i) ==
    LET rows  == KeyRows(reputation_cache', req'[i].inp)
        evals == KeyEvals(evaluations', req'[i].inp)
    IN  /\ Cardinality(rows) = 1
        /\ \A c \in rows :
              /\ c.basis = evals
              /\ c.score = ComputeReputation(evals, req'[i].loc.atts).score
              /\ c.valid_until = req'[i].loc.validUntil
              /\ c.valid_until > now' /\ c.valid_until <= now' + CacheTtl

\* at most one cache row per (subject, realmId, domain)
OneRowPerKey ==
    \A c, d \in reputation_cache :
        c.subject_id = d.subject_id /\ c.realm_id = d.realm_id /\ c.domain = d.domain => c = d

\* C35 as stated: a read with refresh != true returns the cached row iff a row
\* of its key with validUntil later than now exists; every other read
\* recomputes the reputation and replaces the cache row of the key with one
\* valid for five minutes; there is at most one row per key
C35_CacheReadThrough ==
    /\ [](OneRowPerKey)
    /\ [][ServedFromCacheIff]_vars
    /\ [][\A i \in ReqIds : ReadRecomputed(i) => RowReplaced(i)]_vars

\* C35 amended: as C35, but the cache row is replaced only when the key has a
\* stored evaluation; a read of a key without evaluations answers "No
\* evaluations found" and leaves the cache as it is
C35_CacheReadThroughOfEvaluatedKeys ==
    /\ [](OneRowPerKey)
    /\ [][ServedFromCacheIff]_vars
    /\ [][\A i \in ReqIds :
            ReadRecomputed(i) =>
              IF KeyEvals(evaluations, req[i].inp) # <<>>
              THEN req'[i].resp.error = "computed" /\ RowReplaced(i)
              ELSE /\ req'[i].resp.error = "No evaluations found"
                   /\ reputation_cache' = reputation_cache]_vars

\* a read through the cache was answered by recomputation because the row of
\* its key had expired, after an earlier read was served from that row's
\* predecessor or computed it
C35_Witness ==
    \E a, b \in 1..Len(history) :
        /\ a < b
        /\ history[a].kind = "rep" /\ history[a].resp.error = "computed"
        /\ history[b].kind = "rep" /\ history[b].resp.error = "computed"
        /\ history[b].inp.refresh # "true"
        /\ history[b].loc.validUntil >= history[a].loc.validUntil + CacheTtl
        /\ \E c \in reputation_cache : c.valid_until = history[b].loc.validUntil


(***************************************************************************)
(* POST /proofs/verify                                                     *)
(***************************************************************************)
\* the answered verifications of a proof
Verifications == {k \in 1..Len(history) : history[k].kind = "proofverify" /\ history[k].resp.code = 200}

\* C31: valid = signatureValid AND NOT expired AND issuerTrusted; a proof of this
\* instance sent back as issued has a valid signature and a trusted issuer, is
\* valid and not expired up to its validUntil, and after its validUntil is
\* reported expired and not valid with signatureValid still true
C31_ThreeChecks ==
    \A k \in Verifications :
        LET h == history[k]
            d == h.resp.data
            p == h.inp[1]
        IN  /\ d.valid = (d.signatureValid /\ ~d.expired /\ d.issuerTrusted)
            /\ p \in Issued =>
                  /\ d.signatureValid /\ d.issuerTrusted
                  /\ h.loc.at <= p.data.validUntil => d.valid /\ ~d.expired
                  /\ h.loc.at > p.data.validUntil => ~d.valid /\ d.expired

\* one issued proof was verified within its validity and again after it
C31_Witness ==
    \E j, k \in Verifications :
        /\ history[j].inp = history[k].inp
        /\ history[j].inp[1] \in Issued
        /\ history[j].resp.data.valid /\ ~history[j].resp.data.expired
        /\ history[k].loc.at > history[k].inp[1].data.validUntil
        /\ history[k].resp.data.expired /\ history[k].resp.data.signatureValid
        /\ ~history[k].resp.data.valid

\* C32: a proof that carries the signature and the key of an issued proof but
\* differs from it in the value of a field of data, nested ones included, is
\* reported with signatureValid = false
C32_AlteredFieldBreaksSignature ==
    \A k \in Verifications :
        LET q == history[k].inp[1]
        IN  (\E p \in Issued : /\ q.signature = p.signature /\ q.publicKey = p.publicKey
                                /\ q.data # p.data)
            => ~history[k].resp.data.signatureValid

\* C33: a proof is reported valid only if it is signed with the key of the
\* instance; a proof that names the instance as issuer and is signed with, and
\* encloses, another key pair is not reported valid
C33_ValidOnlyUnderInstanceKey ==
    \A k \in Verifications :
        history[k].resp.data.valid =>
            /\ history[k].inp[1].publicKey = InstanceKeys.publicKey
            /\ history[k].inp[1].signature =
                   SignObject(history[k].inp[1].data, InstanceKeys.privateKey)


(***************************************************************************)
(* POST /realms and the realm hierarchy                                    *)
(***************************************************************************)
\* the row of realm id
RealmOf(id) == CHOOSE r \in realms : r.id = id

\* the ids from the root down to realm r, following parent_id at most n times;
\* <<>> when a parent is missing or the root is not reached
RECURSIVE AncestorChain(_, _)
AncestorChain(r, n) ==
    IF r.parent_id = <<>> THEN <<r.id>>
    ELSE IF n = 0 \/ r.parent_id[1] \notin RealmIds THEN <<>>
    ELSE LET up == AncestorChain(RealmOf(r.parent_id[1]), n - 1)
         IN  IF up = <<>> THEN <<>> ELSE up \o <<r.id>>

\* the stored hierarchy is well formed
HierarchyWellFormed ==
    /\ \A r \in realms :
          /\ AncestorChain(r, Cardinality(realms)) # <<>>
          /\ r.path = AncestorChain(r, Cardinality(realms))
          /\ r.depth = Len(r.path) - 1
          /\ r.parent_id = <<>> => r.path = <<r.id>> /\ r.depth = 0
    /\ \A r, q \in realms : r.path = q.path => r = q

\* a create is answered INVALID_PARENT only if it named a parent, and a create
\* answered 201 left the realm it returns, under the parent it named
AnswersMatchRows ==
    \A k \in 1..Len(history) :
        LET h == history[k]
        IN  h.kind = "realm" =>
              /\ h.resp.error = "INVALID_PARENT" => h.resp.code = 400 /\ Has(h.inp, "parent")
              /\ h.resp.code = 201 =>
                    /\ h.resp.data \in realms
                    /\ h.resp.data.id = h.loc.realmId
                    /\ IF Has(h.inp, "parent")
                       THEN /\ h.resp.data.parent_id # <<>>
                            /\ LET up == RealmOf(h.resp.data.parent_id[1])
                               IN  Get(h.inp, "parent") \in {<<up.id>>, up.path}
                       ELSE h.resp.data.parent_id = <<>>

\* the parent query of slot i is answered in this step and finds no realm
ParentMissing(i) ==
    /\ req[i].pc = "realm_parent" /\ req'[i] # req[i]
    /\ \A r \in realms : <<r.id>> # Get(req[i].inp, "parent") /\ r.path # Get(req[i].inp, "parent")

\* C34: every realm's path is the chain of its ancestors' ids ending in its own
\* id, depth is the number of '/' in path (0 and path = id without parent),
\* paths are pairwise distinct, the parent relation is acyclic, and a create
\* naming a parent that does not exist by id or path is answered INVALID_PARENT
\* and creates no realm
C34_RealmHierarchy ==
    /\ [](HierarchyWellFormed /\ AnswersMatchRows)
    /\ [][\A i \in ReqIds :
            ParentMissing(i) => /\ req'[i].pc = "done"
                                /\ req'[i].resp.code = 400
                                /\ req'[i].resp.error = "INVALID_PARENT"
                                /\ realms' = realms]_vars

\* a realm was created under a parent named by its path, two levels below a
\* root, and a create naming a parent that is not stored was rejected
C34_Witness ==
    /\ \E k \in 1..Len(history) :
          /\ history[k].kind = "realm" /\ history[k].resp.code = 201
          /\ Has(history[k].inp, "parent") /\ Len(Get(history[k].inp, "parent")) = 2
          /\ history[k].resp.data.depth = 2
          /\ history[k].resp.data.path = Get(history[k].inp, "parent") \o <<history[k].resp.data.id>>
    /\ \E k \in 1..Len(history) :
          /\ history[k].kind = "realm" /\ history[k].resp.error = "INVALID_PARENT"
          /\ Get(history[k].inp, "parent") = <<"nowhere">>

====
